---- MODULE Spec2Model ----
(***************************************************************************)
(* A model of the per-channel executors of pyquokka (src/pyquokka/        *)
(* executors.py).  Every executor instance is one record-valued variable   *)
(* whose fields are the attributes of the Python object; one action per    *)
(* call of execute / done (and per resumption of the generator returned by *)
(* SuperFastSortExecutor.done).  The variable obs records what a caller    *)
(* can observe: the batches it delivered and the values the calls returned.*)
(* The input datasets of src/pyquokka/dataset.py are modelled the same way *)
(* in the variables dataset and reader.                                    *)
(***************************************************************************)
EXTENDS Integers, Sequences, FiniteSets, TLC

VARIABLES
  sorter,      \* the SuperFastSortExecutor of the channel
  done_gen,    \* the frame of the generator returned by its done
  disk,        \* the files written so far: file name -> contents
  hopping,     \* the HoppingWindowExecutor of the channel
  lib,         \* what the installed libraries leave open (see HopInit)
  buildprobe,  \* the BuildProbeJoinExecutor of the channel
  asof,        \* the SortedAsofExecutor of the channel
  output,      \* the OutputExecutor of the channel
  sliding,     \* the SlidingWindowExecutor of the channel
  session,     \* the SessionWindowExecutor of the channel
  distinct,    \* the DistinctExecutor of the channel
  sqlagg,      \* the SQLAggExecutor of the channel
  concatsql,   \* the ConcatThenSQLExecutor of the channel
  counter,     \* the CountExecutor of the channel
  upload,      \* the frame of a running upload_write_batch and its thread pool
  dataset,     \* the input dataset object of the channel (dataset.py)
  reader,      \* the frame of the generator its get_next_batch returns
  obs          \* what the caller delivered and what the calls returned

vars == <<sorter, done_gen, disk, hopping, lib, buildprobe, asof, output, sliding,
          session, distinct, sqlagg, concatsql, counter, upload, dataset, reader, obs>>

(***************************************************************************)
(* Bounds of the model.                                                    *)
(***************************************************************************)
\* sort keys are drawn from 1..MaxKey
MaxKey == 2
\* rows in one delivered batch
MaxBatchRows == 2
\* rows delivered to one executor instance over its life
MaxRows == 4
\* largest output_batch_rows / row_group_size parameter tried
MaxParam == 2
\* rows of one physical record batch of a spill file (1000000 at
\* executors.py:745, scaled down so that files of several batches occur:
\* a call spills at most MaxBatchRows rows)
MaxChunk == 1

(***************************************************************************)
(* Python values.                                                          *)
(***************************************************************************)
\* Optional values: None is the empty tuple, a present value x is <<x>>.
None == <<>>
Some(x) == <<x>>

\* an executor that has not been constructed on this channel
Absent == [absent |-> TRUE]

\* Each specification below runs one executor kind on one channel: the
\* executors not named in live are not constructed ...
Idle(live) ==
  /\ IF "sort" \in live THEN TRUE ELSE sorter = Absent /\ done_gen = Absent
  /\ IF "disk" \in live THEN TRUE ELSE disk = <<>>
  /\ IF "hop" \in live THEN TRUE ELSE hopping = Absent /\ lib = Absent
  /\ IF "buildprobe" \in live THEN TRUE ELSE buildprobe = Absent
  /\ IF "asof" \in live THEN TRUE ELSE asof = Absent
  /\ IF "output" \in live THEN TRUE ELSE output = Absent
  /\ IF "sliding" \in live THEN TRUE ELSE sliding = Absent
  /\ IF "session" \in live THEN TRUE ELSE session = Absent
  /\ IF "distinct" \in live THEN TRUE ELSE distinct = Absent
  /\ IF "sql" \in live THEN TRUE ELSE sqlagg = Absent /\ concatsql = Absent
  /\ IF "count" \in live THEN TRUE ELSE counter = Absent
  /\ IF "upload" \in live THEN TRUE ELSE upload = Absent
  /\ IF "dataset" \in live THEN TRUE ELSE dataset = Absent /\ reader = Absent

\* ... and no call changes the state of another executor
Untouched(live) ==
  /\ IF "sort" \in live THEN TRUE ELSE UNCHANGED <<sorter, done_gen>>
  /\ IF "disk" \in live THEN TRUE ELSE UNCHANGED disk
  /\ IF "hop" \in live THEN TRUE ELSE UNCHANGED <<hopping, lib>>
  /\ IF "buildprobe" \in live THEN TRUE ELSE UNCHANGED buildprobe
  /\ IF "asof" \in live THEN TRUE ELSE UNCHANGED asof
  /\ IF "output" \in live THEN TRUE ELSE UNCHANGED output
  /\ IF "sliding" \in live THEN TRUE ELSE UNCHANGED sliding
  /\ IF "session" \in live THEN TRUE ELSE UNCHANGED session
  /\ IF "distinct" \in live THEN TRUE ELSE UNCHANGED distinct
  /\ IF "sql" \in live THEN TRUE ELSE UNCHANGED <<sqlagg, concatsql>>
  /\ IF "count" \in live THEN TRUE ELSE UNCHANGED counter
  /\ IF "upload" \in live THEN TRUE ELSE UNCHANGED upload
  /\ IF "dataset" \in live THEN TRUE ELSE UNCHANGED <<dataset, reader>>

Min(a, b) == IF a <= b THEN a ELSE b

RECURSIVE Concat(_)
\* polars.concat / pa.concat_tables: the rows of the tables, in list order
Concat(tables) ==
  IF tables = <<>> THEN <<>> ELSE Head(tables) \o Concat(Tail(tables))

\* [i for i in batches if i is not None and len(i) > 0]
NonEmptyBatches(batches) ==
  LET kept == SelectSeq(batches, LAMBDA o : o # None /\ Len(o[1]) > 0)
  IN  [i \in 1..Len(kept) |-> kept[i][1]]

\* s[a:b] of Python (0-based, end exclusive, clipped to the length)
Slice(s, a, b) == SubSeq(s, Min(a, Len(s)) + 1, Min(b, Len(s)))

\* the sequence s without its i-th element
RemoveAt(s, i) == SubSeq(s, 1, i - 1) \o SubSeq(s, i + 1, Len(s))

RECURSIVE SortedArrangements(_, _)
\* DataFrame.sort(col): polars does not promise the order of rows with equal
\* keys, so the result is any arrangement of the rows ascending in col.
SortedArrangements(s, col) ==
  IF s = <<>> THEN {<<>>}
  ELSE LET least == {i \in 1..Len(s) : \A j \in 1..Len(s) : s[i][col] <= s[j][col]}
       IN  UNION {{<<s[i]>> \o rest : rest \in SortedArrangements(RemoveAt(s, i), col)}
                  : i \in least}

\* whether a sequence of rows is ascending in col
IsSortedBy(s, col) == \A i \in 1..(Len(s) - 1) : s[i][col] <= s[i + 1][col]

RECURSIVE Chunks(_, _)
\* Table.to_batches(max_chunksize): consecutive record batches of at most n rows
Chunks(s, n) ==
  IF Len(s) = 0 THEN <<>>
  ELSE <<SubSeq(s, 1, Min(n, Len(s)))>> \o Chunks(SubSeq(s, Min(n, Len(s)) + 1, Len(s)), n)

\* the rows of a sequence as a set
Range(s) == {s[i] : i \in 1..Len(s)}

\* the number of positions of s that hold x
Occurrences(s, x) == Cardinality({i \in 1..Len(s) : s[i] = x})

(***************************************************************************)
(* Inputs: the batch lists an upstream stage can deliver in one call.      *)
(***************************************************************************)
RECURSIVE SeqsUpTo(_, _)
\* all sequences over S of length at most n
SeqsUpTo(S, n) ==
  IF n = 0 THEN {<<>>}
  ELSE LET shorter == SeqsUpTo(S, n - 1)
       IN  shorter \cup {Append(s, x) : s \in {t \in shorter : Len(t) = n - 1}, x \in S}

\* the shapes of a batch list: a list of one or two entries, each None, an
\* empty batch or a batch of column values; at most room rows in all
BatchLists(Values, room) ==
  LET data == SeqsUpTo(Values, Min(MaxBatchRows, room)) \ {<<>>}
  IN  {<<None>>, <<Some(<<>>)>>}
      \cup {<<Some(b)>> : b \in data}
      \cup {<<None, Some(b)>> : b \in data}
      \cup {<<Some(b), Some(c)>> : b \in {d \in data : Len(d) = 1},
                                   c \in {d \in data : Len(d) = 1 /\ room >= 2}}


RECURSIVE TagBatches(_, _)
\* the batches of a batch list as tables: every row is its column values plus
\* a payload column id holding the row's arrival number (base counts the rows
\* delivered before), so that any two delivered rows differ
TagBatches(batches, base) ==
  IF batches = <<>> THEN <<>>
  ELSE LET b == Head(batches)
       IN  IF b = None THEN <<None>> \o TagBatches(Tail(batches), base)
           ELSE <<Some([i \in 1..Len(b[1]) |->
                         [f \in DOMAIN b[1][i] \cup {"id"} |->
                            IF f = "id" THEN base + i ELSE b[1][i][f]]])>>
                \o TagBatches(Tail(batches), base + Len(b[1]))

\* the rows a batch list holds, in order
RowsOf(batches) == Concat(NonEmptyBatches(batches))

RECURSIVE SetToSeq(_)
\* the integers of a set in ascending order
SetToSeq(S) ==
  IF S = {} THEN <<>>
  ELSE LET m == CHOOSE x \in S : \A y \in S : x <= y
       IN  <<m>> \o SetToSeq(S \ {m})

(***************************************************************************)
(* SuperFastSortExecutor: the producer (execute) and the consumer (the     *)
(* generator done returns).                                                *)
(***************************************************************************)
\* SuperFastSortExecutor.__init__
SFS_init(output_batch_rows) ==
  [key |-> "key", output_batch_rows |-> output_batch_rows, fileno |-> 0,
   prefix |-> "mergesort", in_mem_state |-> None]

\* SFS_filename without the file number: one name per channel
SFS_filename_unnumbered(self, executor_id, n) == <<self.prefix, executor_id, 0>>

\* the name of spill file number n of a channel
SFS_filename(self, executor_id, n) == <<self.prefix, executor_id, n>>

\* write_out_df_to_disk: the table as a file of record batches
SFS_write_out_df_to_disk(fs, target_filepath, input_mem_table) ==
  (target_filepath :> Chunks(input_mem_table, MaxChunk)) @@ fs

\* execute: the outcomes [self, disk, ret] of one call
SFS_execute(self, fs, batches, executor_id) ==
  LET flush_file_name == SFS_filename(self, executor_id, self.fileno)
      kept == NonEmptyBatches(batches)
  IN  IF Len(kept) = 0
      THEN {[self |-> self, disk |-> fs, ret |-> [kind |-> "none"]]}
      ELSE LET batch == Concat(kept)
           IN  {LET new_in_mem_state ==
                      [i \in 1..Len(batch) |->
                         [values |-> sorted_batch[i][self.key], file_no |-> self.fileno]]
                IN  [self |-> [self EXCEPT
                         !.in_mem_state =
                            IF self.in_mem_state = None THEN Some(new_in_mem_state)
                            ELSE Some(self.in_mem_state[1] \o new_in_mem_state),
                         !.fileno = self.fileno + 1],
                     disk |-> SFS_write_out_df_to_disk(fs, flush_file_name, sorted_batch),
                     ret |-> [kind |-> "none"]]
                : sorted_batch \in SortedArrangements(batch, self.key)}

\* done: calling it only creates the generator; no line of its body has run
SFS_done(executor_id) == [pc |-> "created", executor_id |-> executor_id]

\* SFS_done_setup with the sort of line 798 left out
SFS_done_setup_unsorted(self, fs, executor_id) ==
  LET sources == [i \in 0..(self.fileno - 1) |-> fs[SFS_filename(self, executor_id, i)]]
  IN  {[self |-> self,
        frame |-> [pc |-> "running", executor_id |-> executor_id, k |-> 0,
                   sources |-> sources,
                   number_of_batches_in_source |-> [i \in DOMAIN sources |-> Len(sources[i])],
                   cached_batches |-> [i \in DOMAIN sources |-> sources[i][1]],
                   current_number_for_source |-> [i \in DOMAIN sources |-> 1]]]}

\* lines 798-805 of done, run at the first resumption: the index sorted (in
\* one of the orders a sort may give), the files opened, batch 0 of each cached
SFS_done_setup(self, fs, executor_id) ==
  LET num_sources == self.fileno
      sources == [i \in 0..(num_sources - 1) |-> fs[SFS_filename(self, executor_id, i)]]
  IN  {[self |-> [self EXCEPT !.in_mem_state = Some(index)],
        frame |-> [pc |-> "running", executor_id |-> executor_id, k |-> 0,
                   sources |-> sources,
                   number_of_batches_in_source |-> [i \in DOMAIN sources |-> Len(sources[i])],
                   cached_batches |-> [i \in DOMAIN sources |-> sources[i][1]],
                   current_number_for_source |-> [i \in DOMAIN sources |-> 1]]]
       : index \in SortedArrangements(self.in_mem_state[1], "values")}

\* SFS_refill without the raise of line 822: an exhausted file gives what
\* is left in the cache
SFS_refill_short(cached, current, source, desired_length) ==
  [ok |-> TRUE,
   cached |-> cached \o Concat(SubSeq(source, current + 1, Len(source))),
   current |-> Len(source)]

RECURSIVE SFS_refill(_, _, _, _)
\* the while loop of lines 820-825 for one source: [ok, cached, current]
SFS_refill(cached, current, source, desired_length) ==
  IF desired_length > Len(cached)
  THEN IF current = Len(source)
       THEN [ok |-> FALSE, cached |-> cached, current |-> current]
       ELSE SFS_refill(cached \o source[current + 1], current + 1, source, desired_length)
  ELSE [ok |-> TRUE, cached |-> cached, current |-> current]

\* SFS_rest with the slice of line 828 forgotten: the rows taken stay cached
SFS_rest_keepsTaken(cached, desired_length) == cached

\* line 828: what stays cached of a source after desired_length rows were taken
SFS_rest(cached, desired_length) == Slice(cached, desired_length, Len(cached))

\* lines 814-832: one pass of the for loop at offset frame.k; the outcomes
\* [frame, ret], ret being the yielded batch or the exception of line 822
SFS_done_pass(self, frame) ==
  LET things_to_get == Slice(self.in_mem_state[1], frame.k, frame.k + self.output_batch_rows)
      file_nos == {things_to_get[i].file_no : i \in 1..Len(things_to_get)}
      count == [f \in file_nos |->
                  Cardinality({i \in 1..Len(things_to_get) : things_to_get[i].file_no = f})]
      filled == [f \in file_nos |->
                   SFS_refill(frame.cached_batches[f], frame.current_number_for_source[f],
                              frame.sources[f], count[f])]
      order == SetToSeq(file_nos)
      desired_batches == [j \in 1..Len(order) |->
                            Slice(filled[order[j]].cached, 0, count[order[j]])]
      after == [frame EXCEPT
                  !.cached_batches = [f \in DOMAIN frame.cached_batches |->
                      IF f \in file_nos THEN SFS_rest(filled[f].cached, count[f])
                      ELSE frame.cached_batches[f]],
                  !.current_number_for_source = [f \in DOMAIN frame.cached_batches |->
                      IF f \in file_nos THEN filled[f].current
                      ELSE frame.current_number_for_source[f]],
                  !.pc = "suspended"]
  IN  IF \E f \in file_nos : ~filled[f].ok
      THEN {[frame |-> [frame EXCEPT !.pc = "raised"],
             ret |-> [kind |-> "raise", exc |-> "Exception"]]}
      ELSE {[frame |-> after, ret |-> [kind |-> "yield", batch |-> result]]
            : result \in SortedArrangements(Concat(desired_batches), self.key)}

\* SFS_more with the end of the range included
SFS_more_inclusive(self, k) == k <= Len(self.in_mem_state[1])

\* line 810: the offsets range(0, len(in_mem_state), output_batch_rows) still to run
SFS_more(self, k) == k < Len(self.in_mem_state[1])

\* one resumption (next) of the generator: the outcomes [self, frame, ret]
SFS_done_next(self, frame, fs) ==
  IF frame.pc = "created"
  THEN IF self.in_mem_state = None
       THEN {[self |-> self, frame |-> [frame EXCEPT !.pc = "raised"],
              ret |-> [kind |-> "raise", exc |-> "AttributeError"]]}
       ELSE UNION {IF SFS_more(s.self, 0)
                   THEN {[self |-> s.self, frame |-> p.frame, ret |-> p.ret]
                         : p \in SFS_done_pass(s.self, s.frame)}
                   ELSE {[self |-> s.self, frame |-> [s.frame EXCEPT !.pc = "finished"],
                          ret |-> [kind |-> "stop"]]}
                   : s \in SFS_done_setup(self, fs, frame.executor_id)}
  ELSE LET k == frame.k + self.output_batch_rows
       IN  IF SFS_more(self, k)
           THEN {[self |-> self, frame |-> p.frame, ret |-> p.ret]
                 : p \in SFS_done_pass(self, [frame EXCEPT !.k = k])}
           ELSE {[self |-> self, frame |-> [frame EXCEPT !.pc = "finished"],
                  ret |-> [kind |-> "stop"]]}

(***************************************************************************)
(* The sort executor's calls as actions.  obs.delivered holds every row    *)
(* handed to execute, obs.yielded the batches the generator has yielded.   *)
(***************************************************************************)
SortValues == {[key |-> k] : k \in 1..MaxKey}

SortInit ==
  /\ sorter \in {SFS_init(n) : n \in 1..MaxParam}
  /\ done_gen = Absent
  /\ disk = <<>>
  /\ Idle({"sort", "disk"})
  /\ obs = [delivered |-> <<>>, yielded |-> <<>>, ret |-> [kind |-> "none"]]

\* a call of execute on channel 0, before done
SortExecute ==
  /\ done_gen = Absent
  /\ \E raw \in BatchLists(SortValues, MaxRows - Len(obs.delivered)) :
       LET batches == TagBatches(raw, Len(obs.delivered))
       IN  \E o \in SFS_execute(sorter, disk, batches, 0) :
             /\ sorter' = o.self
             /\ disk' = o.disk
             /\ obs' = [obs EXCEPT !.delivered = @ \o RowsOf(batches), !.ret = o.ret]
  /\ UNCHANGED done_gen
  /\ Untouched({"sort", "disk"})

\* the one call of done, after the last batch
SortDone ==
  /\ done_gen = Absent
  /\ done_gen' = SFS_done(0)
  /\ UNCHANGED <<sorter, disk, obs>>
  /\ Untouched({"sort", "disk"})

\* the caller takes the next batch from the generator
SortNext ==
  /\ done_gen # Absent
  /\ done_gen.pc \in {"created", "suspended"}
  /\ \E o \in SFS_done_next(sorter, done_gen, disk) :
       /\ sorter' = o.self
       /\ done_gen' = o.frame
       /\ obs' = [obs EXCEPT
                    !.yielded = IF o.ret.kind = "yield" THEN Append(@, o.ret.batch) ELSE @,
                    !.ret = o.ret]
  /\ UNCHANGED disk
  /\ Untouched({"sort", "disk"})

NextSort == SortExecute \/ SortDone \/ SortNext

SpecSort == SortInit /\ [][NextSort]_vars


(***************************************************************************)
(* Properties of the merge sort.                                           *)
(***************************************************************************)
\* the generator has ended: it ran to its end or raised
SortEnded == done_gen # Absent /\ done_gen.pc \in {"finished", "raised"}

\* the rows yielded so far, in yield order
SortOutput == Concat(obs.yielded)

\* ceil(n / d)
CeilDiv(n, d) == (n + d - 1) \div d

\* C1: once the generator returned by done has ended, the rows of all batches
\* it yielded are the rows of all input batches, each as often as it was
\* delivered: no row is lost and none is duplicated.
C1_SortKeepsMultiset ==
  SortEnded =>
    \A r \in Range(SortOutput) \cup Range(obs.delivered) :
      Occurrences(SortOutput, r) = Occurrences(obs.delivered, r)

\* C1 witness: rows of two spill files, delivered out of key order, came out
\* in several batches
C1_Witness ==
  /\ SortEnded /\ done_gen.pc = "finished"
  /\ sorter.fileno >= 2
  /\ Len(obs.yielded) >= 2
  /\ Len(obs.delivered) >= 3
  /\ ~IsSortedBy(obs.delivered, "key")

\* C2: every batch yielded by done is ascending in the sort key, and the
\* largest key of a yielded batch is at most the smallest key of the next.
C2_SortedOutput ==
  /\ \A i \in 1..Len(obs.yielded) : IsSortedBy(obs.yielded[i], "key")
  /\ \A i \in 1..(Len(obs.yielded) - 1) :
       \A a \in Range(obs.yielded[i]), b \in Range(obs.yielded[i + 1]) : a.key <= b.key

\* C2 witness: two yielded batches with different keys, from input that
\* arrived out of key order over two calls
C2_Witness ==
  /\ Len(obs.yielded) >= 2
  /\ sorter.fileno >= 2
  /\ ~IsSortedBy(obs.delivered, "key")
  /\ \E a \in Range(obs.yielded[1]), b \in Range(obs.yielded[2]) : a.key < b.key

\* C3: with N > 0 rows ingested the generator never raises, yields at most
\* ceil(N / output_batch_rows) batches and exactly that many once it has
\* ended; every batch but the last has output_batch_rows rows and the last
\* has between 1 and output_batch_rows.
C3_BatchCount ==
  (done_gen # Absent /\ Len(obs.delivered) > 0) =>
    LET n == Len(obs.delivered)
        m == Len(obs.yielded)
    IN  /\ done_gen.pc # "raised"
        /\ m <= CeilDiv(n, sorter.output_batch_rows)
        /\ done_gen.pc = "finished" => m = CeilDiv(n, sorter.output_batch_rows)
        /\ \A i \in 1..m :
             /\ Len(obs.yielded[i]) <= sorter.output_batch_rows
             /\ Len(obs.yielded[i]) >= 1
             /\ i < CeilDiv(n, sorter.output_batch_rows)
                  => Len(obs.yielded[i]) = sorter.output_batch_rows

\* C3 witness: the generator ended after a short last batch
C3_Witness ==
  /\ SortEnded /\ done_gen.pc = "finished"
  /\ Len(obs.yielded) >= 2
  /\ Len(obs.yielded[Len(obs.yielded)]) < sorter.output_batch_rows

(***************************************************************************)
(* HoppingWindowExecutor.  Rows have a time column ts and a grouping       *)
(* column by.  An aggregate is written as the set of the ids of the rows   *)
(* that were aggregated into it.                                           *)
(***************************************************************************)
\* timestamps are drawn from 0..HopMaxT
HopMaxT == 4
\* the hop is drawn from 1..HopMaxHop
HopMaxHop == 2
\* rows delivered to one window executor over its life
HopMaxRows == 3
\* calls of execute on one window executor
HopMaxCalls == 3

Bys == {"a", "b"}

\* pyquokka.windowtypes: a window is its class, its size and its hop; a
\* TumblingWindow is the hopping window whose hop is its size
HoppingWindows ==
  {[class |-> "HoppingWindow", size |-> m * h, hop |-> h] :
     h \in 1..HopMaxHop, m \in {1, 2}}
  \cup {[class |-> "TumblingWindow", size |-> h, hop |-> h] : h \in 1..HopMaxHop}

\* pyquokka.windowtypes: the two trigger classes
Triggers == {"OnCompletionTrigger", "OnEventTrigger"}

\* HW_init without the check of lines 93-94
HW_init_unchecked(window, trigger) ==
  [ok |-> TRUE,
   self |-> [time_col |-> "ts", by_col |-> "by", state |-> None,
             window |-> window, trigger |-> trigger]]

\* HoppingWindowExecutor.__init__: [ok, self]
HW_init(window, trigger) ==
  [ok |-> ~(trigger = "OnEventTrigger" /\ window.class = "HoppingWindow"),
   self |-> [time_col |-> "ts", by_col |-> "by", state |-> None,
             window |-> window, trigger |-> trigger]]

\* the values of a column, in order of first appearance
RECURSIVE Firsts(_, _)
Firsts(s, col) ==
  IF s = <<>> THEN <<>>
  ELSE <<s[1][col]>> \o Firsts(SelectSeq(Tail(s), LAMBDA r : r[col] # s[1][col]), col)

\* polars: whether timestamp t lies in the window that starts at start
InWindow(t, start, period, closed) ==
  IF closed = "left" THEN start <= t /\ t < start + period
  ELSE start < t /\ t <= start + period

\* DataFrame.groupby_dynamic(time_col, every, period, by).agg(...): for every
\* group and every window aligned to a multiple of every that holds a row of
\* the group, one aggregate over the rows of the group in the window
groupby_dynamic(rows, every, period, closed) ==
  LET groups == Firsts(rows, "by")
      of(b) == SelectSeq(rows, LAMBDA r : r.by = b)
      starts(b) == SetToSeq({s \in (0 - period - every)..HopMaxT :
                      /\ s % every = 0
                      /\ \E i \in 1..Len(of(b)) : InWindow(of(b)[i].ts, s, period, closed)})
      aggs(b) == [j \in 1..Len(starts(b)) |->
                    [by |-> b, ts |-> starts(b)[j],
                     rows |-> {of(b)[i].id : i \in
                                {i \in 1..Len(of(b)) :
                                   InWindow(of(b)[i].ts, starts(b)[j], period, closed)}}]]
  IN  Concat([g \in 1..Len(groups) |-> aggs(groups[g])])

\* the SQL of lines 150-161: for every row one running aggregate over the rows
\* of its (by, __window_id) partition with a timestamp at or before its own
running_aggregates(rows, size) ==
  [i \in 1..Len(rows) |->
     [by |-> rows[i].by, ts |-> rows[i].ts,
      rows |-> {rows[j].id : j \in
                 {j \in 1..Len(rows) :
                    /\ rows[j].by = rows[i].by
                    /\ rows[j].ts \div size = rows[i].ts \div size
                    /\ rows[j].ts <= rows[i].ts}}]]

\* lines 111-122: the end of the last window that has fully elapsed
HW_last_end(self, timestamp_of_last_row) ==
  ((timestamp_of_last_row - self.window.size) \div self.window.hop) * self.window.hop
  + self.window.size

\* execute: the outcomes [self, ret] of one call
HW_execute(self, closed, batches) ==
  LET kept == NonEmptyBatches(batches)
  IN  IF Len(kept) = 0
      THEN {[self |-> self, ret |-> [kind |-> "raise", exc |-> "ValueError"]]}
      ELSE LET new == Concat(kept)
               last_end == HW_last_end(self, new[Len(new)].ts)
               new_state == SelectSeq(new, LAMBDA r : r.ts > last_end)
               ready == SelectSeq(new, LAMBDA r : r.ts <= last_end)
               batch == IF self.state # None THEN self.state[1] \o ready ELSE ready
               after == [self EXCEPT !.state = Some(new_state)]
           IN  IF self.trigger = "OnCompletionTrigger"
               THEN {[self |-> after, ret |-> [kind |-> "batch", rows |-> result]]
                     : result \in SortedArrangements(
                         groupby_dynamic(batch, self.window.hop, self.window.size, closed),
                         "ts")}
               ELSE IF self.window.class # "TumblingWindow"
               THEN {[self |-> after, ret |-> [kind |-> "raise", exc |-> "AssertionError"]]}
               ELSE {[self |-> after,
                      ret |-> [kind |-> "batch",
                               rows |-> running_aggregates(batch, self.window.size)]]}

\* done: the outcomes [self, ret].  Line 176 reads self.aggregations, an
\* attribute no line of the class sets, so the on-completion branch raises
\* when rows are left in the state.
HW_done(self, closed) ==
  IF self.trigger = "OnCompletionTrigger"
  THEN IF self.state # None /\ Len(self.state[1]) > 0
       THEN {[self |-> self, ret |-> [kind |-> "raise", exc |-> "AttributeError"]]}
       ELSE {[self |-> [self EXCEPT !.state = None], ret |-> [kind |-> "none"]]}
  ELSE IF self.window.class # "TumblingWindow"
  THEN {[self |-> self, ret |-> [kind |-> "raise", exc |-> "AssertionError"]]}
  ELSE IF self.state # None /\ Len(self.state[1]) > 0
       THEN {[self |-> [self EXCEPT !.state = None],
              ret |-> [kind |-> "batch",
                       rows |-> running_aggregates(self.state[1], self.window.size)]]}
       ELSE {[self |-> [self EXCEPT !.state = None], ret |-> [kind |-> "none"]]}

(***************************************************************************)
(* The hopping window executor's calls as actions.  obs.results holds what *)
(* every call returned, obs.finalized whether done was called.             *)
(***************************************************************************)
\* the rows that may follow a stream whose last timestamp was from: the
\* executor is fed in timestamp order (line 79)
HopValues(from) == {[ts |-> t, by |-> b] : t \in from..HopMaxT, b \in Bys}

\* the timestamp of the last row delivered, 0 before the first
LastTs(delivered) == IF delivered = <<>> THEN 0 ELSE delivered[Len(delivered)].ts

\* groupby_dynamic closed its windows on the right up to polars 0.15 and on
\* the left after it; lib.closed is the side of the installed polars
HopInit ==
  /\ hopping \in {c.self : c \in {d \in {HW_init(w, t) : w \in HoppingWindows, t \in Triggers}
                                      : d.ok}}
  /\ lib \in {[closed |-> c] : c \in {"left", "right"}}
  /\ Idle({"hop"})
  /\ obs = [delivered |-> <<>>, results |-> <<>>, finalized |-> FALSE,
            ret |-> [kind |-> "none"]]

\* a call of execute, before done
HopExecute ==
  /\ ~obs.finalized
  /\ Len(obs.results) < HopMaxCalls
  /\ \E raw \in {l \in BatchLists(HopValues(LastTs(obs.delivered)),
                                  HopMaxRows - Len(obs.delivered)) :
                   IsSortedBy(RowsOf(l), "ts")} :
       LET batches == TagBatches(raw, Len(obs.delivered))
       IN  \E o \in HW_execute(hopping, lib.closed, batches) :
             /\ hopping' = o.self
             /\ obs' = [obs EXCEPT !.delivered = @ \o RowsOf(batches),
                                   !.results = Append(@, o.ret),
                                   !.ret = o.ret]
  /\ UNCHANGED lib
  /\ Untouched({"hop"})

\* the one call of done, after the last batch
HopDone ==
  /\ ~obs.finalized
  /\ \E o \in HW_done(hopping, lib.closed) :
       /\ hopping' = o.self
       /\ obs' = [obs EXCEPT !.results = Append(@, o.ret), !.finalized = TRUE,
                             !.ret = o.ret]
  /\ UNCHANGED lib
  /\ Untouched({"hop"})

NextHop == HopExecute \/ HopDone

SpecHop == HopInit /\ [][NextHop]_vars

(***************************************************************************)
(* Properties of the hopping window executor.                              *)
(***************************************************************************)
\* the places <<call, position>> of the aggregates, among the results of all
\* calls so far, that row id was aggregated into
HopAggregatesOf(id) ==
  UNION {{<<i, j>> : j \in {k \in 1..Len(obs.results[i].rows) :
                              id \in obs.results[i].rows[k].rows}}
         : i \in {c \in 1..Len(obs.results) : obs.results[c].kind = "batch"}}

\* the executor runs a tumbling window under the on-completion trigger
HopTumblingOnCompletion ==
  /\ hopping.window.hop = hopping.window.size
  /\ hopping.trigger = "OnCompletionTrigger"

\* C4: with hop == size and the on-completion trigger, once done has been
\* called every input row has contributed to exactly one aggregate among the
\* results of all execute calls and done.
C4_EveryRowAggregatedOnce ==
  (HopTumblingOnCompletion /\ obs.finalized) =>
    \A r \in Range(obs.delivered) : Cardinality(HopAggregatesOf(r.id)) = 1

(***************************************************************************)
(* BuildProbeJoinExecutor.  Stream 0 is the probe side, stream 1 the build *)
(* side; rows have a join column key.                                      *)
(***************************************************************************)
\* join keys are drawn from 1..BPMaxKey
BPMaxKey == 2
\* rows delivered to one join executor over its life
BPMaxRows == 4

\* a row of a join result: the probe row with the id of the build row it
\* was matched with (None: no build row, as in a left, semi or anti join)
Joined(l, right_id) == [key |-> l.key, id |-> l.id, id_right |-> right_id]

\* the matches of probe row l in the build table, in the table's order
Matches(l, right, left_on, right_on) ==
  LET hits == SelectSeq(right, LAMBDA r : r[right_on] = l[left_on])
  IN  [j \in 1..Len(hits) |-> Joined(l, Some(hits[j].id))]

\* DataFrame.join(right, left_on, right_on, how): the tables it may return.
\* A left, semi or anti join keeps the order of the left table; the row
\* order of an inner join follows whichever table polars probes with.
join(left, right, left_on, right_on, how) ==
  LET matched(l) == \E j \in 1..Len(right) : right[j][right_on] = l[left_on]
      by_left == Concat([i \in 1..Len(left) |-> Matches(left[i], right, left_on, right_on)])
      by_right == Concat([j \in 1..Len(right) |->
                    Concat([i \in 1..Len(left) |->
                       IF right[j][right_on] = left[i][left_on]
                       THEN <<Joined(left[i], Some(right[j].id))>> ELSE <<>>])])
      keep(cond(_)) == LET s == SelectSeq(left, cond)
                       IN  [i \in 1..Len(s) |-> Joined(s[i], None)]
  IN  CASE how = "inner" -> {by_left, by_right}
        [] how = "left" -> {Concat([i \in 1..Len(left) |->
                              IF matched(left[i])
                              THEN Matches(left[i], right, left_on, right_on)
                              ELSE <<Joined(left[i], None)>>])}
        [] how = "semi" -> {keep(matched)}
        [] how = "anti" -> {keep(LAMBDA l : ~matched(l))}

\* BuildProbeJoinExecutor.__init__
BP_init(how, key_to_keep) ==
  [state |-> None, left_on |-> "key", right_on |-> "key", phase |-> "build",
   how |-> how, key_to_keep |-> key_to_keep, things_seen |-> <<>>]

\* BP_build without the assertion of line 526
BP_build_unchecked(self, batch) ==
  [self |-> [self EXCEPT !.state = IF self.state = None THEN Some(batch)
                                   ELSE Some(self.state[1] \o batch)],
   ret |-> [kind |-> "none"]]

\* lines 525-527: a batch of the build stream
BP_build(self, batch) ==
  IF self.phase # "build"
  THEN [self |-> self, ret |-> [kind |-> "raise", exc |-> "AssertionError"]]
  ELSE [self |-> [self EXCEPT !.state = IF self.state = None THEN Some(batch)
                                        ELSE Some(self.state[1] \o batch)],
        ret |-> [kind |-> "none"]]

\* BP_probe_empty answering every join kind like an inner join
BP_probe_empty_none(self, batch) == [self |-> self, ret |-> [kind |-> "none"]]

\* lines 531-535: a probe batch while no build batch has been stored
BP_probe_empty(self, batch) ==
  IF self.how = "anti"
  THEN [self |-> self, ret |-> [kind |-> "batch", rows |-> batch]]
  ELSE [self |-> self, ret |-> [kind |-> "none"]]

\* lines 537-543: a probe batch joined against the build state
BP_probe(self, batch) ==
  {[self |-> [self EXCEPT !.state = Some(build), !.phase = "probe"],
    ret |-> [kind |-> "batch", rows |-> result,
             key_name |-> IF self.key_to_keep = "right" THEN self.right_on
                          ELSE self.left_on]]
   : <<build, result>> \in
       UNION {{<<b, r>> : r \in join(batch, b, self.left_on, self.right_on, self.how)}
              : b \in IF self.phase = "build"
                      THEN SortedArrangements(self.state[1], self.right_on)
                      ELSE {self.state[1]}}}

\* execute: the outcomes [self, ret] of one call
BP_execute(self, batches, stream_id) ==
  LET kept == NonEmptyBatches(batches)
  IN  IF Len(kept) = 0
      THEN {[self |-> self, ret |-> [kind |-> "none"]]}
      ELSE LET batch == Concat(kept)
               seen == [self EXCEPT !.things_seen = Append(@, <<stream_id, Len(kept)>>)]
           IN  IF stream_id = 1 THEN {BP_build(seen, batch)}
               ELSE IF stream_id = 0
               THEN IF seen.state = None THEN {BP_probe_empty(seen, batch)}
                    ELSE BP_probe(seen, batch)
               ELSE {[self |-> seen, ret |-> [kind |-> "none"]]}

\* done: nothing is returned and nothing changes
BP_done(self) == [self |-> self, ret |-> [kind |-> "none"]]

(***************************************************************************)
(* The join executor's calls as actions.  obs.call is the last call of     *)
(* execute (its stream, the rows it delivered, whether a probe row had     *)
(* been processed before it), obs.before the executor as that call found   *)
(* it.                                                                     *)
(***************************************************************************)
BPValues == {[key |-> k] : k \in 1..BPMaxKey}

BPInit ==
  /\ buildprobe \in {BP_init(how, k) : how \in {"inner", "left", "semi", "anti"},
                                      k \in {"left", "right"}}
  /\ Idle({"buildprobe"})
  /\ obs = [n |-> 0, called |-> FALSE, probed |-> FALSE, finalized |-> FALSE,
            call |-> [stream_id |-> 0, rows |-> <<>>, probed_before |-> FALSE],
            before |-> BP_init("inner", "left"),
            ret |-> [kind |-> "none"]]

\* a call of execute with a batch list of one of the two streams
BPExecute ==
  /\ ~obs.finalized
  /\ \E stream_id \in {0, 1} :
     \E raw \in BatchLists(BPValues, BPMaxRows - obs.n) :
       LET batches == TagBatches(raw, obs.n)
       IN  \E o \in BP_execute(buildprobe, batches, stream_id) :
             /\ buildprobe' = o.self
             /\ obs' = [obs EXCEPT
                  !.n = @ + Len(RowsOf(batches)),
                  !.called = TRUE,
                  !.probed = @ \/ (stream_id = 0 /\ RowsOf(batches) # <<>>),
                  !.call = [stream_id |-> stream_id, rows |-> RowsOf(batches),
                            probed_before |-> obs.probed],
                  !.before = buildprobe,
                  !.ret = o.ret]
  /\ Untouched({"buildprobe"})

\* the one call of done
BPDone ==
  /\ ~obs.finalized
  /\ buildprobe' = BP_done(buildprobe).self
  /\ obs' = [obs EXCEPT !.finalized = TRUE, !.ret = BP_done(buildprobe).ret]
  /\ Untouched({"buildprobe"})

NextBP == BPExecute \/ BPDone

SpecBP == BPInit /\ [][NextBP]_vars

(***************************************************************************)
(* Properties of the build/probe join.                                     *)
(***************************************************************************)
\* the last call delivered rows of the build stream
BPBuildCall == obs.called /\ obs.call.stream_id = 1 /\ obs.call.rows # <<>>

\* the last call delivered rows of the probe stream
BPProbeCall == obs.called /\ obs.call.stream_id = 0 /\ obs.call.rows # <<>>

\* C5: once a non-empty probe batch has been processed, a later non-empty
\* build batch ends in an error and is not appended to the build state,
\* whatever the build state was when the probe batch was processed.
C5_BuildAfterProbeIsFatal ==
  (BPBuildCall /\ obs.call.probed_before /\ ~obs.finalized) =>
    /\ obs.ret.kind = "raise"
    /\ buildprobe.state = obs.before.state

\* C6: in phase 'probe' a non-empty build batch raises an assertion error and
\* leaves the build state and the phase as they were.
C6_BuildInProbePhaseRaises ==
  (BPBuildCall /\ obs.before.phase = "probe" /\ ~obs.finalized) =>
    /\ obs.ret = [kind |-> "raise", exc |-> "AssertionError"]
    /\ buildprobe.state = obs.before.state
    /\ buildprobe.phase = obs.before.phase

\* C6 witness: a build batch was refused after a probe batch had flipped the
\* phase over a stored build state
C6_Witness ==
  /\ BPBuildCall /\ ~obs.finalized
  /\ obs.before.phase = "probe"
  /\ obs.ret.kind = "raise"
  /\ Len(buildprobe.state[1]) >= 1
  /\ Len(buildprobe.things_seen) = 3

\* C7: a probe batch processed before any build row has been stored comes
\* back unchanged when how is 'anti' and yields no rows when how is 'inner'.
C7_ProbeBeforeBuild ==
  (BPProbeCall /\ obs.before.state = None /\ ~obs.finalized) =>
    /\ buildprobe.how = "anti" =>
         obs.ret = [kind |-> "batch", rows |-> obs.call.rows]
    /\ buildprobe.how = "inner" => obs.ret.kind = "none"

\* C7 witness: an anti join returned a probe batch of two rows as it came
C7_Witness ==
  /\ BPProbeCall /\ ~obs.finalized
  /\ obs.before.state = None
  /\ buildprobe.how = "anti"
  /\ obs.ret.kind = "batch"
  /\ Len(obs.ret.rows) >= 2

(***************************************************************************)
(* SortedAsofExecutor.  Stream 0 carries trades, every other stream        *)
(* quotes; rows have a column time and a column symbol.                    *)
(***************************************************************************)
\* timestamps are drawn from 0..SAMaxT
SAMaxT == 2
\* rows delivered to one as-of executor over its life, both streams together
SAMaxRows == 5

Symbols == {"x", "y"}

\* a row of an as-of join result: the left row with the id of the right row
\* it was matched with (None: no match, the right columns are null)
AsofJoined(l, right_id) ==
  [time |-> l.time, symbol |-> l.symbol, id |-> l.id, id_right |-> right_id]

\* DataFrame.join_asof(right, by symbol) on tables sorted by time: every left
\* row with the last right row of its symbol at or before its time
\* (strategy backward) or the first at or after it (strategy forward)
join_asof(left, right, strategy) ==
  [i \in 1..Len(left) |->
     LET fit == {j \in 1..Len(right) :
                   /\ right[j].symbol = left[i].symbol
                   /\ IF strategy = "backward" THEN right[j].time <= left[i].time
                      ELSE right[j].time >= left[i].time}
     IN  IF fit = {} THEN AsofJoined(left[i], None)
         ELSE LET j == IF strategy = "backward"
                       THEN CHOOSE a \in fit : \A b \in fit : b <= a
                       ELSE CHOOSE a \in fit : \A b \in fit : a <= b
              IN  AsofJoined(left[i], Some(right[j].id))]

\* line 671, drop_nulls: the rows of an as-of join that found a match
drop_nulls(joined) == SelectSeq(joined, LAMBDA r : r.id_right # None)

\* line 672: the latest matched quote timestamp of every matched symbol
SA_latest_joined_quotes(mock_result) ==
  [s \in {mock_result[i].symbol : i \in 1..Len(mock_result)} |->
     CHOOSE t \in {mock_result[i].time : i \in 1..Len(mock_result)} :
       /\ \E i \in 1..Len(mock_result) : mock_result[i].symbol = s /\ mock_result[i].time = t
       /\ \A i \in 1..Len(mock_result) : mock_result[i].symbol = s => mock_result[i].time <= t]

\* SA_prune comparing with > where line 676 compares with >=
SA_prune_strict(quote_state, latest_joined_quotes) ==
  SelectSeq(quote_state, LAMBDA q :
    q.time > (IF q.symbol \in DOMAIN latest_joined_quotes
              THEN latest_joined_quotes[q.symbol] ELSE 0 - 1))

\* lines 674-676: the quotes kept, those at or after the latest matched quote
\* of their symbol (-1 fills in for a symbol without a match)
SA_prune(quote_state, latest_joined_quotes) ==
  SelectSeq(quote_state, LAMBDA q :
    q.time >= (IF q.symbol \in DOMAIN latest_joined_quotes
               THEN latest_joined_quotes[q.symbol] ELSE 0 - 1))

\* SA_keep_trades with the filter of line 667 left out
SA_keep_trades_all(trade_state, watermark) == trade_state

\* SA_keep_trades with the trades at the watermark dropped as well
SA_keep_trades_after(trade_state, watermark) ==
  SelectSeq(trade_state, LAMBDA t : t.time > watermark)

\* line 667: the trades kept, those at or after the latest quote timestamp
SA_keep_trades(trade_state, watermark) ==
  SelectSeq(trade_state, LAMBDA t : t.time >= watermark)

\* SortedAsofExecutor.__init__
SA_init ==
  [trade_state |-> None, quote_state |-> None, join_state |-> None,
   time_col_trades |-> "time", time_col_quotes |-> "time",
   symbol_col_trades |-> "symbol", symbol_col_quotes |-> "symbol"]

\* SA_append without the assertions of lines 645 and 653
SA_append_unchecked(state, batch) ==
  IF state = None THEN [exc |-> "", state |-> Some(batch)]
  ELSE IF Len(state[1]) > 0 /\ batch = <<>>
  THEN [exc |-> "IndexError", state |-> state]
  ELSE [exc |-> "", state |-> Some(state[1] \o batch)]

\* lines 639-654: the batch appended to the buffer of its stream, [exc, state];
\* the assertion reads the first timestamp of the batch, which an empty batch
\* does not have
SA_append(state, batch) ==
  IF state = None THEN [exc |-> "", state |-> Some(batch)]
  ELSE IF Len(state[1]) > 0 /\ batch = <<>>
  THEN [exc |-> "IndexError", state |-> state]
  ELSE IF Len(state[1]) > 0 /\ state[1][Len(state[1])].time > batch[1].time
  THEN [exc |-> "AssertionError", state |-> state]
  ELSE [exc |-> "", state |-> Some(state[1] \o batch)]

\* lines 656-680: the join of what is buffered, [self, ret]
SA_join(self) ==
  IF \/ self.trade_state = None \/ self.quote_state = None
     \/ Len(self.trade_state[1]) = 0 \/ Len(self.quote_state[1]) = 0
  THEN [self |-> self, ret |-> [kind |-> "none"]]
  ELSE
    LET trades == self.trade_state[1]
        quotes == self.quote_state[1]
        watermark == quotes[Len(quotes)].time
        joinable_trades == SelectSeq(trades, LAMBDA t : t.time < watermark)
        joinable_quotes ==
          SelectSeq(quotes, LAMBDA q : q.time <= joinable_trades[Len(joinable_trades)].time)
        result == join_asof(joinable_trades, joinable_quotes, "backward")
        mock_result == drop_nulls(join_asof(joinable_quotes, joinable_trades, "forward"))
    IN  IF Len(joinable_trades) = 0 THEN [self |-> self, ret |-> [kind |-> "none"]]
        ELSE IF Len(joinable_quotes) = 0 THEN [self |-> self, ret |-> [kind |-> "none"]]
        ELSE [self |-> [self EXCEPT
                 !.trade_state = Some(SA_keep_trades(trades, watermark)),
                 !.quote_state = Some(SA_prune(quotes, SA_latest_joined_quotes(mock_result)))],
              ret |-> [kind |-> "batch", rows |-> result]]

\* execute: the outcome [self, ret] of one call
SA_execute(self, batches, stream_id) ==
  IF \E i \in 1..Len(batches) : batches[i] = None
  THEN [self |-> self, ret |-> [kind |-> "raise", exc |-> "TypeError"]]
  ELSE LET batch == Concat([i \in 1..Len(batches) |-> batches[i][1]])
           appended == IF stream_id = 0 THEN SA_append(self.trade_state, batch)
                       ELSE SA_append(self.quote_state, batch)
       IN  IF appended.exc # ""
           THEN [self |-> self, ret |-> [kind |-> "raise", exc |-> appended.exc]]
           ELSE SA_join(IF stream_id = 0
                        THEN [self EXCEPT !.trade_state = appended.state]
                        ELSE [self EXCEPT !.quote_state = appended.state])

\* done: one last as-of join of what is left in both buffers
SA_done(self) ==
  IF self.trade_state = None \/ self.quote_state = None
  THEN [self |-> self, ret |-> [kind |-> "raise", exc |-> "AttributeError"]]
  ELSE [self |-> self,
        ret |-> [kind |-> "batch",
                 rows |-> join_asof(self.trade_state[1], self.quote_state[1], "backward")]]

(***************************************************************************)
(* The as-of executor's calls as actions.  obs.quotes holds every quote    *)
(* row a call has buffered; obs.nt and obs.nq count the rows delivered on  *)
(* the two streams.                                                        *)
(***************************************************************************)
SAValues == {[time |-> t, symbol |-> s] : t \in 0..SAMaxT, s \in Symbols}

AsofInit ==
  /\ asof = SA_init
  /\ Idle({"asof"})
  /\ obs = [nt |-> 0, nq |-> 0, finalized |-> FALSE, quotes |-> <<>>,
            ret |-> [kind |-> "none"]]

\* a call of execute with a batch list of one of the two streams, every batch
\* sorted by time
AsofExecute ==
  /\ ~obs.finalized
  /\ \E stream_id \in {0, 1} :
     \E raw \in {l \in BatchLists(SAValues, SAMaxRows - (obs.nt + obs.nq)) :
                   IsSortedBy(RowsOf(l), "time")} :
       LET batches == TagBatches(raw, IF stream_id = 0 THEN obs.nt ELSE obs.nq)
           o == SA_execute(asof, batches, stream_id)
       IN  /\ asof' = o.self
           /\ obs' = [obs EXCEPT
                !.nt = IF stream_id = 0 THEN @ + Len(RowsOf(batches)) ELSE @,
                !.nq = IF stream_id # 0 THEN @ + Len(RowsOf(batches)) ELSE @,
                !.quotes = IF stream_id # 0 /\ o.ret.kind # "raise"
                           THEN @ \o RowsOf(batches) ELSE @,
                !.ret = o.ret]
  /\ Untouched({"asof"})

\* the one call of done
AsofDone ==
  /\ ~obs.finalized
  /\ asof' = SA_done(asof).self
  /\ obs' = [obs EXCEPT !.finalized = TRUE, !.ret = SA_done(asof).ret]
  /\ Untouched({"asof"})

NextAsof == AsofExecute \/ AsofDone

SpecAsof == AsofInit /\ [][NextAsof]_vars

(***************************************************************************)
(* Properties of SortedAsofExecutor.                                       *)
(***************************************************************************)
\* the rows a buffer of the executor holds (none before its first batch)
SA_held(state) == IF state = None THEN {} ELSE Range(state[1])

\* the symbols for which the returned join result holds a matched row
SA_matched(ret) ==
  IF ret.kind # "batch" THEN {}
  ELSE {r.symbol : r \in {m \in Range(ret.rows) : m.id_right # None}}

SA_latest_quotes_kept ==
  \A t \in SA_held(asof.trade_state) :
    \A q \in Range(obs.quotes) :
      (/\ q.symbol = t.symbol
       /\ \A r \in Range(obs.quotes) : r.symbol = q.symbol => r.time <= q.time)
      => q \in SA_held(asof.quote_state)

OutMaxRows == 7
\* largest row_group_size tried (5500000 by default, executors.py:361)
OutMaxGroup == 3

\* OutputExecutor.__init__ (the assertion on format holds for both formats)
OE_init(format, row_group_size) ==
  [num |-> 0, format |-> format, filepath |-> "out", prefix |-> "part",
   row_group_size |-> row_group_size, my_batches |-> <<>>, name |-> 0,
   region |-> "local"]

\* line 397: the path of the file numbered name
OE_basename_template(self, executor_id, name) ==
  <<self.filepath, self.prefix, executor_id, name, self.format>>

\* lines 436, 443: the i-th file name of a manifest
OE_manifest_name(self, executor_id, i) ==
  <<self.prefix, executor_id, self.name, i, self.format>>

\* OE_slices without the slicing of line 396: the whole batch as one file
OE_slices_whole(write_batch, row_group_size) ==
  IF write_batch = <<>> THEN <<>> ELSE <<write_batch>>

\* OE_slices with the last, shorter slice left out:
\* range(0, len(write_batch) - row_group_size + 1, row_group_size)
OE_slices_full_only(write_batch, row_group_size) ==
  [j \in 1..(Len(write_batch) \div row_group_size) |->
     Slice(write_batch, (j - 1) * row_group_size, j * row_group_size)]

\* lines 395-396: the slices write_batch[i : i + row_group_size] for i in
\* range(0, len(write_batch), row_group_size)
OE_slices(write_batch, row_group_size) ==
  [j \in 1..((Len(write_batch) + row_group_size - 1) \div row_group_size) |->
     Slice(write_batch, (j - 1) * row_group_size, j * row_group_size)]

\* upload_write_batch: one file per slice, numbered from self.name on; the
\* uploads run on a thread pool and are all awaited, each to a path of its own
OE_upload_write_batch(self, fs, write_batch, executor_id) ==
  LET slices == OE_slices(write_batch, self.row_group_size)
      paths == [j \in 1..Len(slices) |->
                  OE_basename_template(self, executor_id, self.name + j - 1)]
  IN  [self |-> [self EXCEPT !.name = @ + Len(slices)],
       disk |-> [p \in DOMAIN fs \cup Range(paths) |->
                   IF p \in Range(paths)
                   THEN slices[CHOOSE j \in 1..Len(slices) : paths[j] = p]
                   ELSE fs[p]],
       files |-> paths]

\* np.sum(lengths[:k])
OE_rows_in(tables, k) == Len(Concat(SubSeq(tables, 1, k)))

\* line 418: the largest multiple of row_group_size within total_len
OE_write_len(total_len, row_group_size) ==
  (total_len \div row_group_size) * row_group_size

\* execute: the outcome [self, disk, files, ret] of one call
OE_execute(self, fs, batches, executor_id) ==
  LET my == self.my_batches \o NonEmptyBatches(batches)
      total_len == OE_rows_in(my, Len(my))
      write_len == OE_write_len(total_len, self.row_group_size)
      \* np.where(np.cumsum(lengths) >= write_len)[0][0]
      full_batches_to_take ==
        (CHOOSE k \in 1..Len(my) :
           /\ OE_rows_in(my, k) >= write_len
           /\ \A j \in 1..(k - 1) : OE_rows_in(my, j) < write_len) - 1
      rows_to_take == write_len - OE_rows_in(my, full_batches_to_take)
      rest == SubSeq(my, full_batches_to_take + 1, Len(my))
      write_batch ==
        Concat(SubSeq(my, 1, full_batches_to_take))
          \o (IF rows_to_take > 0 THEN Slice(rest[1], 0, rows_to_take) ELSE <<>>)
      left == IF rows_to_take > 0
              THEN [rest EXCEPT ![1] = Slice(@, rows_to_take, Len(@))]
              ELSE rest
      kept == [self EXCEPT !.my_batches = left]
      up == OE_upload_write_batch(kept, fs, write_batch, executor_id)
  IN  IF total_len <= self.row_group_size
      THEN [self |-> [self EXCEPT !.my_batches = my], disk |-> fs, files |-> <<>>,
            ret |-> [kind |-> "none"]]
      ELSE IF rows_to_take <= 0 /\ full_batches_to_take = 0
      THEN \* write_batch is None, len(None)
           [self |-> kept, disk |-> fs, files |-> <<>>,
            ret |-> [kind |-> "raise", exc |-> "TypeError"]]
      ELSE IF Len(write_batch) % self.row_group_size # 0
      THEN [self |-> kept, disk |-> fs, files |-> <<>>,
            ret |-> [kind |-> "raise", exc |-> "AssertionError"]]
      ELSE [self |-> up.self, disk |-> up.disk, files |-> up.files,
            ret |-> [kind |-> "batch",
                     rows |-> [i \in 1..(Len(write_batch) \div self.row_group_size) |->
                                 [filename |-> OE_manifest_name(up.self, executor_id, i - 1)]]]]

\* done: what is buffered goes out, whatever its size; pa.concat_tables
\* refuses an empty list
OE_done(self, fs, executor_id) ==
  IF self.my_batches = <<>>
  THEN [self |-> self, disk |-> fs, files |-> <<>>,
        ret |-> [kind |-> "raise", exc |-> "ValueError"]]
  ELSE LET df == Concat(self.my_batches)
           up == OE_upload_write_batch(self, fs, df, executor_id)
           \* (len(df) - 1) // row_group_size + 1, with Python's floor division
           n == IF Len(df) = 0 THEN 0 ELSE (Len(df) - 1) \div self.row_group_size + 1
       IN  [self |-> up.self, disk |-> up.disk, files |-> up.files,
            ret |-> [kind |-> "batch",
                     rows |-> [i \in 1..n |->
                                 [filename |-> OE_manifest_name(up.self, executor_id, i - 1)]]]]

(***************************************************************************)
(* The output executor's calls as actions.                                 *)
(***************************************************************************)
\* the rows carry one column besides their id
OutValues == {[v |-> 0]}

\* the log entries of the files a call has written
OE_logged(by, files, fs) ==
  [j \in 1..Len(files) |-> [by |-> by, file |-> files[j], rows |-> fs[files[j]]]]

OutInit ==
  /\ output \in {OE_init(f, n) : f \in {"csv", "parquet"}, n \in 1..OutMaxGroup}
  /\ disk = <<>>
  /\ Idle({"output", "disk"})
  /\ obs = [n |-> 0, finalized |-> FALSE, writes |-> <<>>, ret |-> [kind |-> "none"]]

\* a call of execute on channel 0, before done
OutExecute ==
  /\ ~obs.finalized
  /\ \E raw \in BatchLists(OutValues, OutMaxRows - obs.n) :
       LET batches == TagBatches(raw, obs.n)
           o == OE_execute(output, disk, batches, 0)
       IN  /\ output' = o.self
           /\ disk' = o.disk
           /\ obs' = [obs EXCEPT !.n = @ + Len(RowsOf(batches)),
                                 !.writes = @ \o OE_logged("execute", o.files, o.disk),
                                 !.ret = o.ret]
  /\ Untouched({"output", "disk"})

\* the one call of done
OutDone ==
  /\ ~obs.finalized
  /\ LET o == OE_done(output, disk, 0)
     IN  /\ output' = o.self
         /\ disk' = o.disk
         /\ obs' = [obs EXCEPT !.finalized = TRUE,
                               !.writes = @ \o OE_logged("done", o.files, o.disk),
                               !.ret = o.ret]
  /\ Untouched({"output", "disk"})

NextOut == OutExecute \/ OutDone

SpecOut == OutInit /\ [][NextOut]_vars

(***************************************************************************)
(* Properties of OutputExecutor.                                           *)
(***************************************************************************)
\* C10: every file written by an execute call contains exactly
\* row_group_size rows; only a file written by done may contain fewer (and
\* none contains more).
C10_RowGroupFiles ==
  \A i \in 1..Len(obs.writes) :
    /\ obs.writes[i].by = "execute"
         => Len(obs.writes[i].rows) = output.row_group_size
    /\ Len(obs.writes[i].rows) <= output.row_group_size

\* execute calls have written several full files and done has written a last
\* file of fewer rows
C10_Witness ==
  /\ obs.finalized
  /\ output.row_group_size >= 2
  /\ Cardinality({i \in 1..Len(obs.writes) : obs.writes[i].by = "execute"}) >= 2
  /\ \E i \in 1..Len(obs.writes) :
       /\ obs.writes[i].by = "done"
       /\ Len(obs.writes[i].rows) < output.row_group_size

\* the log entries of the files written by the calls of one kind
OE_written(by) == SelectSeq(obs.writes, LAMBDA w : w.by = by)

\* C11: for N rows delivered in any batch split and row-group size R, the
\* execute calls write exactly floor(N/R) files and done writes one last file
\* of N mod R rows, or no file when N mod R is 0.
C11_FileCounts ==
  obs.finalized =>
    /\ Len(OE_written("execute")) = obs.n \div output.row_group_size
    /\ IF obs.n % output.row_group_size = 0
       THEN OE_written("done") = <<>>
       ELSE /\ Len(OE_written("done")) = 1
            /\ Len(OE_written("done")[1].rows) = obs.n % output.row_group_size

\* the name of a written file without its directory
OE_basename(path) == SubSeq(path, 2, Len(path))

\* C12: the manifest an execute or done call returns lists exactly the names
\* of the files written during that call, each prefix-channel-index.format
\* with the counter value used for that file.
C12_ManifestNamesFiles ==
  [][obs'.ret.kind = "batch" =>
       {obs'.ret.rows[i].filename : i \in 1..Len(obs'.ret.rows)}
         = {OE_basename(p) : p \in DOMAIN disk' \ DOMAIN disk}]_vars

\* C13: done on an instance that has received no input returns an explicit
\* no-result value and never raises (stated for every executor kind; here
\* for the output executor).
C13_DoneWithoutInput ==
  (obs.finalized /\ obs.n = 0 /\ obs.writes = <<>>) => obs.ret.kind = "none"

\* the returns of the execute calls made so far on the hopping executor
HopExecuteReturns ==
  IF obs.finalized THEN SubSeq(obs.results, 1, Len(obs.results) - 1) ELSE obs.results

\* C14: execute called with a batch list holding None entries or zero-length
\* batches (a list of nothing else included) skips them without raising
\* (stated for every executor kind; here for the hopping window executor,
\* whose inputs range over all such lists).
C14_EmptyEntriesSkipped ==
  \A i \in 1..Len(HopExecuteReturns) : HopExecuteReturns[i].kind # "raise"

(***************************************************************************)
(* SessionWindowExecutor.  Rows have a column ts and a column by.          *)
(***************************************************************************)
\* timestamps are drawn from 0..SessMaxT
SessMaxT == 3
\* largest session timeout tried
SessMaxTimeout == 2
\* rows delivered to one session window executor over its life
SessMaxRows == 3

\* pyquokka.windowtypes: a session window is its timeout
SessionWindows ==
  {[class |-> "SessionWindow", timeout |-> n] : n \in 1..SessMaxTimeout}

\* SessionWindowExecutor.__init__
SW_init(window, trigger) ==
  [time_col |-> "ts", by_col |-> "by", state |-> None,
   window |-> window, trigger |-> trigger]

\* the rows of a table that have key b, in table order
SW_of(rows, b) == SelectSeq(rows, LAMBDA r : r.by = b)

\* SW_window_ids counting the gaps >= timeout where line 298 counts those
\* > timeout
SW_window_ids_inclusive(of, timeout) ==
  [i \in 1..Len(of) |->
     Cardinality({j \in 2..i : of[j].ts - of[j - 1].ts >= timeout})]

\* line 298 and fill_null(0): along the rows of one key, the running count
\* of the rows whose timestamp exceeds the previous row's by more than timeout
SW_window_ids(of, timeout) ==
  [i \in 1..Len(of) |->
     Cardinality({j \in 2..i : of[j].ts - of[j - 1].ts > timeout})]

\* lines 295-300: every (by, ts, __window_id) of the grouped and exploded
\* frame, joined back to the batch on (by, ts).  The join pairs each of them
\* with every batch row of that key and timestamp.  The order of the keys and
\* of the rows of equal key and timestamp is not specified by polars and is
\* fixed here; no later step depends on it.
SW_windowed(batch, timeout) ==
  LET keys == Firsts(batch, "by")
      exploded(b) ==
        LET ids == SW_window_ids(SW_of(batch, b), timeout)
        IN  [i \in 1..Len(ids) |->
               [by |-> b, ts |-> SW_of(batch, b)[i].ts, window_id |-> ids[i]]]
      matches(l) ==
        LET right == SelectSeq(batch, LAMBDA r : r.by = l.by /\ r.ts = l.ts)
        IN  [i \in 1..Len(right) |->
               [by |-> l.by, ts |-> l.ts, id |-> right[i].id, window_id |-> l.window_id]]
      joined(b) == Concat([i \in 1..Len(exploded(b)) |-> matches(exploded(b)[i])])
  IN  Concat([k \in 1..Len(keys) |-> joined(keys[k])])

\* line 304: the largest __window_id of every key
SW_last_window_id(windowed) ==
  [b \in {windowed[i].by : i \in 1..Len(windowed)} |->
     LET ids == {windowed[i].window_id : i \in {j \in 1..Len(windowed) : windowed[j].by = b}}
     IN  CHOOSE m \in ids : \A n \in ids : n <= m]

\* line 310: one aggregate per (by, __window_id), over the ids of its rows
SW_groupby(windowed) ==
  LET groups == {<<windowed[i].by, windowed[i].window_id>> : i \in 1..Len(windowed)}
      first(g) == CHOOSE i \in 1..Len(windowed) :
                    /\ <<windowed[i].by, windowed[i].window_id>> = g
                    /\ \A j \in 1..(i - 1) : <<windowed[j].by, windowed[j].window_id>> # g
      order == SetToSeq({first(g) : g \in groups})
  IN  [k \in 1..Len(order) |->
         LET h == windowed[order[k]]
             members == SelectSeq(windowed, LAMBDA r : r.by = h.by /\ r.window_id = h.window_id)
         IN  [by |-> h.by, window_id |-> h.window_id,
              rows |-> [i \in 1..Len(members) |-> members[i].id]]]

\* lines 317-328: for every row one running aggregate over the rows of its
\* (by, __window_id) partition with a timestamp at or before its own
SW_running(windowed) ==
  [k \in 1..Len(windowed) |->
     LET h == windowed[k]
         members == SelectSeq(windowed, LAMBDA r :
                      r.by = h.by /\ r.window_id = h.window_id /\ r.ts <= h.ts)
     IN  [by |-> h.by, ts |-> h.ts, of |-> h.id,
          rows |-> [i \in 1..Len(members) |-> members[i].id]]]

\* execute: the outcome [self, ret] of one call
SW_execute(self, batches) ==
  LET kept == NonEmptyBatches(batches)
  IN  IF Len(kept) = 0
      THEN [self |-> self, ret |-> [kind |-> "raise", exc |-> "ValueError"]]
      ELSE LET batch == IF self.state # None THEN self.state[1] \o Concat(kept)
                        ELSE Concat(kept)
               windowed_batch == SW_windowed(batch, self.window.timeout)
               last_window_id == SW_last_window_id(windowed_batch)
               \* lines 306, 307: the join with last_window_id and the anti join
               last == SelectSeq(windowed_batch, LAMBDA r : r.window_id = last_window_id[r.by])
               closed == SelectSeq(windowed_batch, LAMBDA r : r.window_id # last_window_id[r.by])
               state == [i \in 1..Len(last) |->
                           [ts |-> last[i].ts, by |-> last[i].by, id |-> last[i].id]]
           IN  [self |-> [self EXCEPT !.state = Some(state)],
                ret |-> [kind |-> "batch",
                         rows |-> IF self.trigger = "OnCompletionTrigger"
                                  THEN SW_groupby(closed) ELSE SW_running(closed)]]

\* done: under the on-completion trigger one aggregate over the whole state
\* (grouped by a constant __window_id alone); under the on-event trigger the
\* SQL partitions by __window_id, a column the state does not have (line 306
\* drops it), which the SQL engine refuses
SW_done(self) ==
  IF self.state = None \/ Len(self.state[1]) = 0
  THEN [self |-> self, ret |-> [kind |-> "none"]]
  ELSE IF self.trigger = "OnCompletionTrigger"
  THEN [self |-> self,
        ret |-> [kind |-> "batch",
                 rows |-> <<[window_id |-> 1,
                             rows |-> [i \in 1..Len(self.state[1]) |-> self.state[1][i].id]]>>]]
  ELSE [self |-> self, ret |-> [kind |-> "raise", exc |-> "BinderException"]]

(***************************************************************************)
(* The session window executor's calls as actions.  obs.before is the      *)
(* state the last call found and obs.call the rows it delivered.           *)
(***************************************************************************)
\* the rows that may follow a stream whose last timestamp was from
SessValues(from) == {[ts |-> t, by |-> b] : t \in from..SessMaxT, b \in Bys}

SessInit ==
  /\ session \in {SW_init(w, t) : w \in SessionWindows, t \in Triggers}
  /\ Idle({"session"})
  /\ obs = [delivered |-> <<>>, finalized |-> FALSE, before |-> None, call |-> <<>>,
            ret |-> [kind |-> "none"]]

\* a call of execute, before done
SessExecute ==
  /\ ~obs.finalized
  /\ \E raw \in {l \in BatchLists(SessValues(LastTs(obs.delivered)),
                                  SessMaxRows - Len(obs.delivered)) :
                   IsSortedBy(RowsOf(l), "ts")} :
       LET batches == TagBatches(raw, Len(obs.delivered))
           o == SW_execute(session, batches)
       IN  /\ session' = o.self
           /\ obs' = [obs EXCEPT !.delivered = @ \o RowsOf(batches),
                                 !.before = session.state,
                                 !.call = RowsOf(batches),
                                 !.ret = o.ret]
  /\ Untouched({"session"})

\* the one call of done, after the last batch
SessDone ==
  /\ ~obs.finalized
  /\ session' = SW_done(session).self
  /\ obs' = [obs EXCEPT !.finalized = TRUE, !.before = session.state, !.call = <<>>,
                        !.ret = SW_done(session).ret]
  /\ Untouched({"session"})

NextSess == SessExecute \/ SessDone

SpecSess == SessInit /\ [][NextSess]_vars

(***************************************************************************)
(* Properties of SessionWindowExecutor.                                    *)
(***************************************************************************)
\* the rows the last execute call worked on: the carried state, then the input
SessBatch == (IF obs.before = None THEN <<>> ELSE obs.before[1]) \o obs.call

\* the last call was an execute call that returned a result
SessExecuted == ~obs.finalized /\ obs.ret.kind = "batch"

\* C15: for each key, the session ids assigned along the key's rows in
\* timestamp order never decrease, and a row starts a new (larger) id if and
\* only if its timestamp exceeds the previous row's timestamp for that key by
\* more than the timeout.
C15_SessionIds ==
  SessExecuted =>
    \A b \in Bys :
      LET k == SW_of(SW_windowed(SessBatch, session.window.timeout), b)
      IN  \A i \in 2..Len(k) :
            /\ k[i].ts >= k[i - 1].ts
            /\ k[i].window_id >= k[i - 1].window_id
            /\ (k[i].window_id # k[i - 1].window_id
                  <=> k[i].ts - k[i - 1].ts > session.window.timeout)

\* a call has worked on three rows of one key, at three different
\* timestamps, that fall into two sessions
C15_Witness ==
  /\ SessExecuted
  /\ \E b \in Bys :
       LET k == SW_of(SW_windowed(SessBatch, session.window.timeout), b)
       IN  /\ Len(k) = 3
           /\ k[1].ts < k[2].ts /\ k[2].ts < k[3].ts
           /\ Cardinality({k[i].window_id : i \in 1..3}) = 2

\* whether the p-th row of a key's rows lies in the key's last session: no
\* gap above the timeout follows it
SessInLast(k, p) ==
  \A q \in (p + 1)..Len(k) : k[q].ts - k[q - 1].ts <= session.window.timeout

\* how often the row with payload id occurs in SessBatch inside (last = TRUE)
\* or outside (last = FALSE) the last session of its key
SessCount(id, last) ==
  Cardinality({bp \in Bys \X (1..Len(SessBatch)) :
                 LET k == SW_of(SessBatch, bp[1])
                 IN  /\ bp[2] <= Len(k)
                     /\ k[bp[2]].id = id
                     /\ SessInLast(k, bp[2]) = last})

\* how often the row with payload id is covered by the result of the last
\* call: as a member of a session aggregate under the on-completion trigger,
\* as the row of a running aggregate under the on-event trigger
SessCovered(id) ==
  IF session.trigger = "OnCompletionTrigger"
  THEN Cardinality({ij \in (1..Len(obs.ret.rows)) \X (1..Len(SessBatch)) :
                      /\ ij[2] <= Len(obs.ret.rows[ij[1]].rows)
                      /\ obs.ret.rows[ij[1]].rows[ij[2]] = id})
  ELSE Cardinality({i \in 1..Len(obs.ret.rows) : obs.ret.rows[i].of = id})

\* C16: after every execute call the state holds exactly the rows of the last
\* session of each key among the carried state plus the input, and the result
\* aggregates exactly the rows of all other sessions; no row is in both and
\* none is in neither.
C16_LastSessionKept ==
  SessExecuted =>
    \A id \in 1..SessMaxRows :
      /\ Cardinality({i \in 1..Len(session.state[1]) : session.state[1][i].id = id})
           = SessCount(id, TRUE)
      /\ SessCovered(id) = SessCount(id, FALSE)

\* the delivered rows that no execute call of the hopping executor has
\* aggregated: the rows its state holds when done is called
HopBuffered ==
  {r \in Range(obs.delivered) :
     \A ij \in HopAggregatesOf(r.id) : obs.finalized /\ ij[1] = Len(obs.results)}

\* C17: when the execute calls have left rows buffered in state, done
\* completes without raising and returns aggregates that cover every
\* buffered row under its key (stated for the hopping and the session window
\* executor; here for the hopping window executor).
C17_DoneAggregatesBuffered ==
  (obs.finalized /\ HopBuffered # {}) =>
    /\ obs.ret.kind = "batch"
    /\ \A r \in HopBuffered :
         \E k \in 1..Len(obs.ret.rows) :
           r.id \in obs.ret.rows[k].rows /\ obs.ret.rows[k].by = r.by

(***************************************************************************)
(* SlidingWindowExecutor.  Rows have a column ts and a column by.          *)
(***************************************************************************)
\* timestamps are drawn from 0..SlideMaxT
SlideMaxT == 2
\* largest lookback length (size_before) tried
SlideMaxSize == 2
\* rows delivered to one sliding window executor over its life
SlideMaxRows == 3

\* pyquokka.windowtypes: a sliding window is its lookback length
SlidingWindows ==
  {[class |-> "SlidingWindow", size_before |-> n] : n \in 1..SlideMaxSize}

\* SlidingWindowExecutor.__init__
SL_init(window, trigger) ==
  [time_col |-> "ts", by_col |-> "by", state |-> None,
   window |-> window, trigger |-> trigger]

\* SL_keep with >= where line 250 compares with >
SL_keep_inclusive(batch, size_before) ==
  SelectSeq(batch, LAMBDA r : r.ts >= batch[Len(batch)].ts - size_before)

\* line 250: the rows within the lookback length of the last row's timestamp
SL_keep(batch, size_before) ==
  SelectSeq(batch, LAMBDA r : r.ts > batch[Len(batch)].ts - size_before)

\* the rolling aggregate of one row: over the rows of its key whose timestamp
\* lies in (ts - period, ts]
SL_rolling(batch, r, period) ==
  [by |-> r.by, ts |-> r.ts, of |-> r.id,
   rows |-> {q.id : q \in {p \in Range(batch) :
                             p.by = r.by /\ r.ts - period < p.ts /\ p.ts <= r.ts}}]

\* line 257, DataFrame.groupby_rolling(by = ...): one rolling aggregate per
\* row.  polars computes them key by key and does not promise the order of
\* the result: it is the order of the rows, or the rows of the first key,
\* then those of the next
groupby_rolling(batch, period) ==
  LET keys == Firsts(batch, "by")
      grouped == Concat([k \in 1..Len(keys) |-> SelectSeq(batch, LAMBDA r : r.by = keys[k])])
  IN  {[i \in 1..Len(batch) |-> SL_rolling(batch, batch[i], period)],
       [i \in 1..Len(batch) |-> SL_rolling(batch, grouped[i], period)]}

\* execute: the outcomes [self, ret] of one call
SL_execute(self, batches) ==
  LET kept == NonEmptyBatches(batches)
  IN  IF Len(kept) = 0
      THEN {[self |-> self, ret |-> [kind |-> "raise", exc |-> "ValueError"]]}
      ELSE LET batch == IF self.state # None THEN self.state[1] \o Concat(kept)
                        ELSE Concat(kept)
               to_discard == IF self.state # None THEN Len(self.state[1]) ELSE 0
           IN  {[self |-> [self EXCEPT
                             !.state = Some(SL_keep(batch, self.window.size_before))],
                 ret |-> [kind |-> "batch", rows |-> Slice(result, to_discard, Len(result))]]
                : result \in groupby_rolling(batch, self.window.size_before)}

\* done: nothing is left to emit
SL_done(self) == [self |-> self, ret |-> [kind |-> "none"]]

(***************************************************************************)
(* The sliding window executor's calls as actions.  obs.emitted holds the  *)
(* rows of all results so far, obs.before the state the last call found    *)
(* and obs.call the rows it delivered.                                     *)
(***************************************************************************)
\* the rows that may follow a stream whose last timestamp was from
SlideValues(from) == {[ts |-> t, by |-> b] : t \in from..SlideMaxT, b \in Bys}

SlideInit ==
  /\ sliding \in {SL_init(w, t) : w \in SlidingWindows, t \in Triggers}
  /\ Idle({"sliding"})
  /\ obs = [delivered |-> <<>>, emitted |-> <<>>, finalized |-> FALSE,
            before |-> None, call |-> <<>>, ret |-> [kind |-> "none"]]

\* a call of execute, before done
SlideExecute ==
  /\ ~obs.finalized
  /\ \E raw \in {l \in BatchLists(SlideValues(LastTs(obs.delivered)),
                                  SlideMaxRows - Len(obs.delivered)) :
                   IsSortedBy(RowsOf(l), "ts")} :
       LET batches == TagBatches(raw, Len(obs.delivered))
       IN  \E o \in SL_execute(sliding, batches) :
             /\ sliding' = o.self
             /\ obs' = [obs EXCEPT
                          !.delivered = @ \o RowsOf(batches),
                          !.emitted = IF o.ret.kind = "batch" THEN @ \o o.ret.rows ELSE @,
                          !.before = sliding.state,
                          !.call = RowsOf(batches),
                          !.ret = o.ret]
  /\ Untouched({"sliding"})

\* the one call of done, after the last batch
SlideDone ==
  /\ ~obs.finalized
  /\ sliding' = SL_done(sliding).self
  /\ obs' = [obs EXCEPT !.finalized = TRUE, !.before = sliding.state, !.call = <<>>,
                        !.ret = SL_done(sliding).ret]
  /\ Untouched({"sliding"})

NextSlide == SlideExecute \/ SlideDone

SpecSlide == SlideInit /\ [][NextSlide]_vars

(***************************************************************************)
(* Properties of SlidingWindowExecutor.                                    *)
(***************************************************************************)
\* C18: over any sequence of execute calls on timestamp-ordered input with
\* any number of keys, each input row produces exactly one rolling aggregate
\* in the results: no row carried in state is emitted again and no row of
\* the current call is missing.
C18_OneAggregatePerRow ==
  \A r \in Range(obs.delivered) :
    Cardinality({i \in 1..Len(obs.emitted) : obs.emitted[i].of = r.id}) = 1

\* the latest timestamp seen so far
SlideLatest ==
  CHOOSE t \in {r.ts : r \in Range(obs.delivered)} :
    \A r \in Range(obs.delivered) : r.ts <= t

\* the rows the last execute call worked on: the carried state, then the input
SlideBatch == (IF obs.before = None THEN <<>> ELSE obs.before[1]) \o obs.call

\* C19: after every execute call the state contains exactly the rows of
\* (previous state plus input) whose timestamp is greater than
\* latest_timestamp - size_before, each once, and no older row.
C19_StateWithinLookback ==
  (~obs.finalized /\ obs.ret.kind = "batch") =>
    /\ Range(sliding.state[1])
         = {r \in Range(SlideBatch) : r.ts > SlideLatest - sliding.window.size_before}
    /\ \A i, j \in 1..Len(sliding.state[1]) :
         sliding.state[1][i] = sliding.state[1][j] => i = j

\* a call has found rows in state, dropped one of them as too old and kept
\* another one next to a row of its input
C19_Witness ==
  /\ ~obs.finalized /\ obs.ret.kind = "batch"
  /\ obs.before # None
  /\ \E r \in Range(obs.before[1]) : r \notin Range(sliding.state[1])
  /\ \E r \in Range(obs.before[1]) : r \in Range(sliding.state[1])
  /\ \E r \in Range(obs.call) : r \in Range(sliding.state[1])

\* C20: under the on-completion trigger with hop == size, an aggregate for a
\* (key, window) pair is emitted only once that window has closed: no (key,
\* window) pair appears in the results of two different calls, and the
\* windows an execute call emits are closed, i.e. no row at or after the
\* latest timestamp seen can still fall into them.
C20_EmittedOnceWhenClosed ==
  (HopTumblingOnCompletion /\ ~obs.finalized) =>
    /\ \A i, j \in 1..Len(obs.results) :
         (i < j /\ obs.results[i].kind = "batch" /\ obs.results[j].kind = "batch") =>
           \A a \in Range(obs.results[i].rows) : \A b \in Range(obs.results[j].rows) :
             ~(a.by = b.by /\ a.ts = b.ts)
    /\ obs.ret.kind = "batch" =>
         \A a \in Range(obs.ret.rows) :
           ~InWindow(LastTs(obs.delivered), a.ts, hopping.window.size, lib.closed)

\* C21: with a tumbling window under the on-event trigger, the running
\* aggregate an execute call emits for a row covers all rows delivered so far
\* of the same (key, timestamp div size) window whose timestamp is at or
\* before the row's, those delivered in earlier calls included.
C21_RunningAggregateOverWindow ==
  (/\ hopping.trigger = "OnEventTrigger"
   /\ ~obs.finalized /\ obs.ret.kind = "batch") =>
    \A a \in Range(obs.ret.rows) :
      a.rows = {r.id : r \in {d \in Range(obs.delivered) :
                                /\ d.by = a.by
                                /\ d.ts \div hopping.window.size = a.ts \div hopping.window.size
                                /\ d.ts <= a.ts}}

(***************************************************************************)
(* The construction of a HoppingWindowExecutor as an action: the channel   *)
(* starts without an executor, obs.window and obs.trigger hold the         *)
(* arguments of the last constructor call.                                 *)
(***************************************************************************)
HopNewInit ==
  /\ hopping = Absent
  /\ lib \in {[closed |-> c] : c \in {"left", "right"}}
  /\ Idle({"hop"})
  /\ obs = [delivered |-> <<>>, results |-> <<>>, finalized |-> FALSE,
            ret |-> [kind |-> "none"], window |-> None, trigger |-> None]

\* HoppingWindowExecutor(time_col, by_col, window, trigger)
HopConstruct ==
  /\ hopping = Absent
  /\ \E w \in HoppingWindows, t \in Triggers :
       /\ hopping' = IF HW_init(w, t).ok THEN HW_init(w, t).self ELSE Absent
       /\ obs' = [obs EXCEPT !.window = Some(w), !.trigger = Some(t),
                             !.ret = IF HW_init(w, t).ok THEN [kind |-> "none"]
                                     ELSE [kind |-> "raise", exc |-> "Exception"]]
  /\ UNCHANGED lib
  /\ Untouched({"hop"})

\* the calls on the executor, once it is constructed
HopNewExecute == hopping # Absent /\ HopExecute

HopNewDone == hopping # Absent /\ HopDone

NextHopNew == HopConstruct \/ HopNewExecute \/ HopNewDone

SpecHopNew == HopNewInit /\ [][NextHopNew]_vars

\* C22 as stated: the constructor rejects the on-event trigger exactly with a
\* window whose hop is smaller than its size; the on-event trigger with
\* hop == size and the on-completion trigger with any window are accepted.
C22_RejectsOnEventHopping ==
  obs.window # None =>
    (hopping = Absent
       <=> (obs.trigger[1] = "OnEventTrigger" /\ obs.window[1].hop < obs.window[1].size))

\* C22, amended: the constructor rejects the on-event trigger exactly with a
\* window of class HoppingWindow itself, whatever its hop; the on-event
\* trigger with a TumblingWindow and the on-completion trigger with any
\* window are accepted.
C22_RejectsOnEventHoppingClass ==
  obs.window # None =>
    /\ hopping = Absent
         <=> (obs.trigger[1] = "OnEventTrigger" /\ obs.window[1].class = "HoppingWindow")
    /\ hopping = Absent => obs.ret.kind = "raise"
    /\ hopping # Absent => hopping.window = obs.window[1] /\ hopping.trigger = obs.trigger[1]

\* the constructor has rejected the on-event trigger with a hop below the size
C22_Witness ==
  /\ obs.window # None
  /\ hopping = Absent /\ obs.ret.kind = "raise"
  /\ obs.trigger[1] = "OnEventTrigger"
  /\ obs.window[1].hop < obs.window[1].size

(***************************************************************************)
(* The type of the time column.  The three window executors check it with  *)
(* the same assertion (lines 101-102, 239-240, 287-288); the rows of the   *)
(* model carry the timestamp as a number (the value of an integer column,  *)
(* the seconds of a datetime column, the days of a date column) and        *)
(* obs.dtype is the polars dtype of the column of the stream.              *)
(***************************************************************************)
\* the dtypes tried: the four the assertion names, a floating point and a
\* string column
TimeDtypes == {"Int32", "Int64", "Datetime", "Date", "Float64", "Utf8"}

\* the assertion on the dtype of the time column
time_dtype_ok(dtype) == dtype \in {"Int32", "Int64", "Datetime", "Date"}

\* HoppingWindowExecutor.execute on a time column of the given dtype: the
\* last timestamp of an integer column is an int (line 120), that of a
\* Datetime column a datetime.datetime (line 114), that of a Date column a
\* datetime.date, which is neither (line 125)
HW_execute_typed(self, closed, batches, dtype) ==
  IF Len(NonEmptyBatches(batches)) = 0 THEN HW_execute(self, closed, batches)
  ELSE IF ~time_dtype_ok(dtype)
  THEN {[self |-> self, ret |-> [kind |-> "raise", exc |-> "AssertionError"]]}
  ELSE IF dtype = "Date"
  THEN {[self |-> self, ret |-> [kind |-> "raise", exc |-> "NotImplementedError"]]}
  ELSE HW_execute(self, closed, batches)

\* SlidingWindowExecutor.execute on a time column of the given dtype
SL_execute_typed(self, batches, dtype) ==
  IF Len(NonEmptyBatches(batches)) = 0 \/ time_dtype_ok(dtype)
  THEN SL_execute(self, batches)
  ELSE {[self |-> self, ret |-> [kind |-> "raise", exc |-> "AssertionError"]]}

\* SessionWindowExecutor.execute on a time column of the given dtype
SW_execute_typed(self, batches, dtype) ==
  IF Len(NonEmptyBatches(batches)) = 0 \/ time_dtype_ok(dtype)
  THEN SW_execute(self, batches)
  ELSE [self |-> self, ret |-> [kind |-> "raise", exc |-> "AssertionError"]]

\* one of the three window executors is constructed on the channel and fed
\* a stream whose time column has one dtype; obs.before is the executor as
\* it was before the last call, obs.call the rows of that call
TypedInit ==
  /\ \/ /\ hopping \in {c.self : c \in {d \in {HW_init(w, t) : w \in HoppingWindows,
                                                              t \in Triggers} : d.ok}}
        /\ lib \in {[closed |-> c] : c \in {"left", "right"}}
        /\ Idle({"hop"})
     \/ /\ sliding \in {SL_init(w, t) : w \in SlidingWindows, t \in Triggers}
        /\ Idle({"sliding"})
     \/ /\ session \in {SW_init(w, t) : w \in SessionWindows, t \in Triggers}
        /\ Idle({"session"})
  /\ \E d \in TimeDtypes :
       obs = [dtype |-> d, delivered |-> <<>>, before |-> Absent, call |-> <<>>,
              ret |-> [kind |-> "none"]]

\* a call of HoppingWindowExecutor.execute on the typed stream
TypedHopExecute ==
  /\ hopping # Absent
  /\ \E raw \in {l \in BatchLists(HopValues(LastTs(obs.delivered)),
                                  HopMaxRows - Len(obs.delivered)) :
                   IsSortedBy(RowsOf(l), "ts")} :
       LET batches == TagBatches(raw, Len(obs.delivered))
       IN  \E o \in HW_execute_typed(hopping, lib.closed, batches, obs.dtype) :
             /\ hopping' = o.self
             /\ obs' = [obs EXCEPT !.delivered = @ \o RowsOf(batches),
                                   !.before = hopping,
                                   !.call = RowsOf(batches),
                                   !.ret = o.ret]
  /\ UNCHANGED lib
  /\ Untouched({"hop"})

\* a call of SlidingWindowExecutor.execute on the typed stream
TypedSlideExecute ==
  /\ sliding # Absent
  /\ \E raw \in {l \in BatchLists(SlideValues(LastTs(obs.delivered)),
                                  SlideMaxRows - Len(obs.delivered)) :
                   IsSortedBy(RowsOf(l), "ts")} :
       LET batches == TagBatches(raw, Len(obs.delivered))
       IN  \E o \in SL_execute_typed(sliding, batches, obs.dtype) :
             /\ sliding' = o.self
             /\ obs' = [obs EXCEPT !.delivered = @ \o RowsOf(batches),
                                   !.before = sliding,
                                   !.call = RowsOf(batches),
                                   !.ret = o.ret]
  /\ Untouched({"sliding"})

\* a call of SessionWindowExecutor.execute on the typed stream
TypedSessExecute ==
  /\ session # Absent
  /\ \E raw \in {l \in BatchLists(SessValues(LastTs(obs.delivered)),
                                  SessMaxRows - Len(obs.delivered)) :
                   IsSortedBy(RowsOf(l), "ts")} :
       LET batches == TagBatches(raw, Len(obs.delivered))
           o == SW_execute_typed(session, batches, obs.dtype)
       IN  /\ session' = o.self
           /\ obs' = [obs EXCEPT !.delivered = @ \o RowsOf(batches),
                                 !.before = session,
                                 !.call = RowsOf(batches),
                                 !.ret = o.ret]
  /\ Untouched({"session"})

NextTyped == TypedHopExecute \/ TypedSlideExecute \/ TypedSessExecute

SpecTyped == TypedInit /\ [][NextTyped]_vars

\* the window executor of the channel
TypedExecutor ==
  IF hopping # Absent THEN hopping ELSE IF sliding # Absent THEN sliding ELSE session

\* C23: a call of execute with rows whose time column is a 32-bit integer, a
\* 64-bit integer, a date or a timestamp is processed (it does not fail), and
\* a call with a time column of any other type fails and leaves the executor
\* as it was.
C23_TimeColumnTypes ==
  obs.call # <<>> =>
    IF time_dtype_ok(obs.dtype)
    THEN obs.ret.kind # "raise"
    ELSE obs.ret.kind = "raise" /\ TypedExecutor = obs.before

\* the rows buffered for a stream, none before its first batch
SA_buffer(stream_id) ==
  LET state == IF stream_id = 0 THEN asof.trade_state ELSE asof.quote_state
  IN  IF state = None THEN <<>> ELSE state[1]

\* the sorted batches of one or two rows a call may bring
SA_batches == {b \in SeqsUpTo(SAValues, 2) : b # <<>> /\ IsSortedBy(b, "time")}

SA_watermark(self) == self.quote_state[1][Len(self.quote_state[1])].time

\* C25 as stated: after an execute call, no trade row with a timestamp at or
\* before the watermark (the latest buffered quote timestamp) is left in the
\* trade state.
C25_TradesUpToWatermarkJoined ==
  (~obs.finalized /\ obs.ret.kind # "raise" /\ SA_buffer(1) # <<>>) =>
    \A t \in SA_held(asof.trade_state) : t.time > SA_watermark(asof)

\* C25, amended: a call that returns a join result joins exactly the trade
\* rows (buffered before or delivered by the call) strictly before the
\* watermark and removes them from the trade state, and keeps every trade row
\* at or after the watermark; a call that returns nothing removes no trade.
C25_TradesBeforeWatermarkJoined ==
  [][(~obs'.finalized /\ obs'.ret.kind # "raise") =>
       LET before == {t.id : t \in SA_held(asof.trade_state)} \cup ((obs.nt + 1)..obs'.nt)
           after == {t.id : t \in SA_held(asof'.trade_state)}
           joined == IF obs'.ret.kind = "batch" THEN {r.id : r \in Range(obs'.ret.rows)}
                     ELSE {}
       IN  /\ after \cup joined = before
           /\ after \cap joined = {}
           /\ obs'.ret.kind = "batch" =>
                /\ \A r \in Range(obs'.ret.rows) : r.time < SA_watermark(asof')
                /\ \A t \in SA_held(asof'.trade_state) : t.time >= SA_watermark(asof')]_vars

\* a call has joined a trade before the watermark and kept a trade at the
\* watermark and a trade after it
C25_Witness ==
  /\ ~obs.finalized /\ obs.ret.kind = "batch" /\ Len(obs.ret.rows) > 0
  /\ \E t \in SA_held(asof.trade_state) : t.time = SA_watermark(asof)
  /\ \E t \in SA_held(asof.trade_state) : t.time > SA_watermark(asof)

(***************************************************************************)
(* The sort executor with a spill file that no longer agrees with the      *)
(* index: the file names are built from the prefix and the channel alone   *)
(* (line 760; "make sure this is different for different executors", line  *)
(* 737), so another writer with the same prefix replaces a file of this    *)
(* executor by a shorter one.                                              *)
(***************************************************************************)
\* a spill file is replaced, before the consumer has opened the files, by a
\* file holding only the first n of its rows
SortOverwrite ==
  /\ IF done_gen = Absent THEN TRUE ELSE done_gen.pc = "created"
  /\ \E name \in DOMAIN disk :
       \E n \in 1..(Len(Concat(disk[name])) - 1) :
         disk' = [disk EXCEPT ![name] = Chunks(SubSeq(Concat(disk[name]), 1, n), MaxChunk)]
  /\ UNCHANGED <<sorter, done_gen, obs>>
  /\ Untouched({"sort", "disk"})

NextSortShared == SortExecute \/ SortDone \/ SortNext \/ SortOverwrite

SpecSortShared == SortInit /\ [][NextSortShared]_vars

\* the number of rows the first upto entries of the sorted index require of
\* spill file f
SortRequired(f, upto) ==
  Cardinality({i \in 1..Min(upto, Len(sorter.in_mem_state[1])) :
                 sorter.in_mem_state[1][i].file_no = f})

\* C26: once the consumer runs, every batch it has yielded is a full output
\* slice whose rows every spill file could supply, it stops only at the end
\* of the index, and it has raised only when the slice after the last yielded
\* one requires more rows of some spill file than the file holds: a slice a
\* file cannot supply is never yielded, the consumer raises on it.
C26_ExhaustedFileIsFatal ==
  (done_gen # Absent /\ done_gen.pc \in {"suspended", "finished", "raised"}
     /\ sorter.in_mem_state # None) =>
    LET index == sorter.in_mem_state[1]
        rows == sorter.output_batch_rows
        n == Len(obs.yielded)
        short(upto) == \E f \in DOMAIN done_gen.sources :
                         SortRequired(f, upto) > Len(Concat(done_gen.sources[f]))
    IN  /\ \A i \in 1..n : Len(obs.yielded[i]) = Len(Slice(index, (i - 1) * rows, i * rows))
        /\ ~short(n * rows)
        /\ done_gen.pc = "finished" => n * rows >= Len(index)
        /\ done_gen.pc = "raised" => short((n + 1) * rows)
        /\ done_gen.pc = "raised" => obs.ret = [kind |-> "raise", exc |-> "Exception"]

\* the consumer has yielded a batch, has read a further physical batch of
\* some file, and then raised on a spill file that was replaced by a shorter
\* one and is read to its end
C26_Witness ==
  /\ done_gen # Absent /\ done_gen.pc = "raised"
  /\ obs.ret = [kind |-> "raise", exc |-> "Exception"]
  /\ Len(obs.yielded) >= 1
  /\ \E f \in DOMAIN done_gen.sources :
       /\ done_gen.current_number_for_source[f] = done_gen.number_of_batches_in_source[f]
       /\ SortRequired(f, Len(sorter.in_mem_state[1])) > Len(Concat(done_gen.sources[f]))
  /\ \E g \in DOMAIN done_gen.sources : done_gen.current_number_for_source[g] >= 2

(***************************************************************************)
(* DistinctExecutor.  Rows have the columns k and v; keys is the set of    *)
(* the columns the executor was constructed with.  The rows carry no       *)
(* further payload, since unique() compares whole rows.                    *)
(***************************************************************************)
\* the columns k and v are drawn from 1..DistMaxVal
DistMaxVal == 2
\* rows delivered to one executor instance over its life
DistMaxRows == 3

\* DistinctExecutor.__init__
DE_init(keys) == [keys |-> keys, state |-> None]

RECURSIVE Arrangements(_)
\* the orders in which the rows of a set may be returned
Arrangements(S) ==
  IF S = {} THEN {<<>>}
  ELSE UNION {{<<x>> \o rest : rest \in Arrangements(S \ {x})} : x \in S}

\* DataFrame.unique(): one row of every set of rows equal in all columns, in
\* an order the library leaves open
unique(batch) == Arrangements(Range(batch))

\* left.join(right, on = keys, how = "anti"): the rows of left, in order, whose
\* values on keys no row of right has
anti_join(left, right, keys) ==
  SelectSeq(left, LAMBDA l : ~\E i \in 1..Len(right) : \A c \in keys : right[i][c] = l[c])

\* execute: the outcomes [self, ret] of one call
DE_execute(self, batches) ==
  LET kept == NonEmptyBatches(batches)
  IN  IF Len(kept) = 0 THEN {[self |-> self, ret |-> [kind |-> "none"]]}
      ELSE {IF self.state = None
            THEN [self |-> [self EXCEPT !.state = Some(batch)],
                  ret |-> [kind |-> "batch", rows |-> batch]]
            ELSE LET contribution == anti_join(batch, self.state[1], self.keys)
                 IN  [self |-> [self EXCEPT !.state = Some(self.state[1] \o contribution)],
                      ret |-> [kind |-> "batch", rows |-> contribution]]
            : batch \in unique(Concat(kept))}

\* done: nothing is left to emit
DE_done(self) == [self |-> self, ret |-> [kind |-> "none"]]

(***************************************************************************)
(* The distinct executor's calls as actions.  obs.delivered holds every    *)
(* row handed to execute, obs.emitted the rows the calls returned.         *)
(***************************************************************************)
DistValues == {[k |-> a, v |-> b] : a \in 1..DistMaxVal, b \in 1..DistMaxVal}

\* distinct on the column k alone or on both columns
DistInit ==
  /\ distinct \in {DE_init(keys) : keys \in {{"k"}, {"k", "v"}}}
  /\ Idle({"distinct"})
  /\ obs = [delivered |-> <<>>, emitted |-> <<>>, finalized |-> FALSE,
            ret |-> [kind |-> "none"]]

\* a call of execute, before done
DistExecute ==
  /\ ~obs.finalized
  /\ \E batches \in BatchLists(DistValues, DistMaxRows - Len(obs.delivered)) :
     \E o \in DE_execute(distinct, batches) :
       /\ distinct' = o.self
       /\ obs' = [obs EXCEPT !.delivered = @ \o RowsOf(batches),
                             !.emitted = IF o.ret.kind = "batch" THEN @ \o o.ret.rows ELSE @,
                             !.ret = o.ret]
  /\ Untouched({"distinct"})

\* the one call of done, after the last batch
DistDone ==
  /\ ~obs.finalized
  /\ distinct' = DE_done(distinct).self
  /\ obs' = [obs EXCEPT !.finalized = TRUE, !.ret = DE_done(distinct).ret]
  /\ Untouched({"distinct"})

NextDist == DistExecute \/ DistDone

SpecDist == DistInit /\ [][NextDist]_vars

\* two rows have the same values in the key columns
DistSameKey(r, s) == \A c \in distinct.keys : r[c] = s[c]

\* C27: no two rows emitted over all calls have the same values in the key
\* columns, every key value present in the input has been emitted exactly
\* once, and the state holds exactly the rows emitted so far.
C27_DistinctEmitsNewKeysOnce ==
  /\ \A i, j \in 1..Len(obs.emitted) :
       DistSameKey(obs.emitted[i], obs.emitted[j]) => i = j
  /\ \A r \in Range(obs.delivered) :
       Cardinality({i \in 1..Len(obs.emitted) : DistSameKey(obs.emitted[i], r)}) = 1
  /\ IF distinct.state = None THEN obs.emitted = <<>>
     ELSE distinct.state[1] = obs.emitted

(***************************************************************************)
(* SQLAggExecutor and ConcatThenSQLExecutor: both gather every batch and   *)
(* run one SQL statement over the gathered table in done.                  *)
(***************************************************************************)
\* rows delivered to one executor instance over its life
SQLMaxRows == 3
\* calls of execute that return, over the life of one instance
SQLMaxCalls == 3

\* duckdb: the result of a statement over the table batch_arrow, which only
\* the statement and the table determine
duckdb_execute(statement, batch_arrow) ==
  [statement |-> statement, batch_arrow |-> batch_arrow]

\* SQ_accumulate with the earlier state dropped
SQ_accumulate_replace(state, batch) == Some(batch)

\* lines 613 and 698: the state with the batch of the call appended
SQ_accumulate(state, batch) ==
  IF state = None THEN Some(batch) ELSE Some(state[1] \o batch)

\* SQLAggExecutor.__init__: the clause is built from the three parameters
SQA_init(groupby_keys, orderby_keys, sql_statement) ==
  [agg_clause |-> <<"select", groupby_keys, sql_statement, "from batch_arrow",
                    "group by", groupby_keys, "order by", orderby_keys>>,
   state |-> None]

\* SQLAggExecutor.execute: [self, ret]; pa.concat_tables raises on a None
SQA_execute(self, batches) ==
  IF \E i \in 1..Len(batches) : batches[i] = None
  THEN [self |-> self, ret |-> [kind |-> "raise", exc |-> "TypeError"]]
  ELSE [self |-> [self EXCEPT !.state =
                    SQ_accumulate(@, Concat([i \in 1..Len(batches) |-> batches[i][1]]))],
        ret |-> [kind |-> "none"]]

\* SQLAggExecutor.done: [self, ret]
SQA_done(self) ==
  IF self.state = None THEN [self |-> self, ret |-> [kind |-> "none"]]
  ELSE LET result == duckdb_execute(self.agg_clause, self.state[1])
       IN  [self |-> [self EXCEPT !.state = Some(result)],
            ret |-> [kind |-> "batch", rows |-> result]]

\* ConcatThenSQLExecutor.__init__
CTS_init(sql_statement) == [statement |-> sql_statement, state |-> None]

\* ConcatThenSQLExecutor.execute: [self, ret]
CTS_execute(self, batches) ==
  IF \E i \in 1..Len(batches) : batches[i] = None
  THEN [self |-> self, ret |-> [kind |-> "raise", exc |-> "TypeError"]]
  ELSE [self |-> [self EXCEPT !.state =
                    SQ_accumulate(@, Concat([i \in 1..Len(batches) |-> batches[i][1]]))],
        ret |-> [kind |-> "none"]]

\* ConcatThenSQLExecutor.done: [self, ret]
CTS_done(self) ==
  IF self.state = None THEN [self |-> self, ret |-> [kind |-> "none"]]
  ELSE LET result == duckdb_execute(self.statement, self.state[1])
       IN  [self |-> [self EXCEPT !.state = Some(result)],
            ret |-> [kind |-> "batch", rows |-> result]]

(***************************************************************************)
(* The calls of the two executors as actions; one of the two is            *)
(* constructed on the channel.  obs.delivered holds the rows of the calls  *)
(* of execute that returned, obs.calls their number.                       *)
(***************************************************************************)
SQLInit ==
  /\ \/ sqlagg = SQA_init(<<"key">>, <<<<"key", "desc">>>>, "count(*)") /\ concatsql = Absent
     \/ sqlagg = Absent /\ concatsql = CTS_init("select count(*) from batch_arrow")
  /\ Idle({"sql"})
  /\ obs = [delivered |-> <<>>, calls |-> 0, finalized |-> FALSE, ret |-> [kind |-> "none"]]

\* a call of SQLAggExecutor.execute, before done
SQLAggExecute ==
  /\ sqlagg # Absent /\ ~obs.finalized /\ obs.calls < SQLMaxCalls
  /\ \E raw \in BatchLists(SortValues, SQLMaxRows - Len(obs.delivered)) :
       LET batches == TagBatches(raw, Len(obs.delivered))
           o == SQA_execute(sqlagg, batches)
       IN  /\ sqlagg' = o.self
           /\ obs' = IF o.ret.kind = "raise" THEN [obs EXCEPT !.ret = o.ret]
                     ELSE [obs EXCEPT !.delivered = @ \o RowsOf(batches),
                                      !.calls = @ + 1, !.ret = o.ret]
  /\ UNCHANGED concatsql
  /\ Untouched({"sql"})

\* the one call of SQLAggExecutor.done
SQLAggDone ==
  /\ sqlagg # Absent /\ ~obs.finalized
  /\ sqlagg' = SQA_done(sqlagg).self
  /\ obs' = [obs EXCEPT !.finalized = TRUE, !.ret = SQA_done(sqlagg).ret]
  /\ UNCHANGED concatsql
  /\ Untouched({"sql"})

\* a call of ConcatThenSQLExecutor.execute, before done
ConcatSQLExecute ==
  /\ concatsql # Absent /\ ~obs.finalized /\ obs.calls < SQLMaxCalls
  /\ \E raw \in BatchLists(SortValues, SQLMaxRows - Len(obs.delivered)) :
       LET batches == TagBatches(raw, Len(obs.delivered))
           o == CTS_execute(concatsql, batches)
       IN  /\ concatsql' = o.self
           /\ obs' = IF o.ret.kind = "raise" THEN [obs EXCEPT !.ret = o.ret]
                     ELSE [obs EXCEPT !.delivered = @ \o RowsOf(batches),
                                      !.calls = @ + 1, !.ret = o.ret]
  /\ UNCHANGED sqlagg
  /\ Untouched({"sql"})

\* the one call of ConcatThenSQLExecutor.done
ConcatSQLDone ==
  /\ concatsql # Absent /\ ~obs.finalized
  /\ concatsql' = CTS_done(concatsql).self
  /\ obs' = [obs EXCEPT !.finalized = TRUE, !.ret = CTS_done(concatsql).ret]
  /\ UNCHANGED sqlagg
  /\ Untouched({"sql"})

NextSQL == SQLAggExecute \/ SQLAggDone \/ ConcatSQLExecute \/ ConcatSQLDone

SpecSQL == SQLInit /\ [][NextSQL]_vars

\* the executor constructed on the channel and its statement
SQLExecutor == IF sqlagg # Absent THEN sqlagg ELSE concatsql

SQLStatement == IF sqlagg # Absent THEN sqlagg.agg_clause ELSE concatsql.statement

\* C28: no call of execute returns a result; before done the state is the
\* concatenation, in call order, of the rows of the calls that returned (no
\* state before the first); done returns nothing when there is no state and
\* otherwise the SQL evaluator's result over exactly that table.
C28_ExecuteOnlyAccumulates ==
  /\ ~obs.finalized =>
       /\ obs.ret.kind \in {"none", "raise"}
       /\ SQLExecutor.state = IF obs.calls = 0 THEN None ELSE Some(obs.delivered)
  /\ obs.finalized =>
       obs.ret = IF obs.calls = 0 THEN [kind |-> "none"]
                 ELSE [kind |-> "batch",
                       rows |-> duckdb_execute(SQLStatement, obs.delivered)]

\* done has returned the evaluator's result over the rows of three calls
C28_Witness ==
  /\ obs.finalized /\ obs.calls >= 3 /\ Len(obs.delivered) = SQLMaxRows
  /\ obs.ret.kind = "batch"

\* C29: from the first non-empty batch of stream 0 on, the phase is 'probe'
\* in every later state, whatever calls of execute and done follow.
C29_FirstProbeFlipsPhaseForGood ==
  obs.probed => buildprobe.phase = "probe"

\* the position, in the probe batch of the last call, of the probe row an
\* output row derives from
BPProbePosition(out) ==
  CHOOSE i \in 1..Len(obs.call.rows) : obs.call.rows[i].id = out.id

\* C30: the rows of the result of a probe call appear in the order of the
\* probe batch: an output row derived from an earlier probe row never comes
\* after an output row derived from a later probe row.
C30_ProbeOrderPreserved ==
  (BPProbeCall /\ ~obs.finalized /\ obs.ret.kind = "batch") =>
    \A i, j \in 1..Len(obs.ret.rows) :
      i < j => BPProbePosition(obs.ret.rows[i]) <= BPProbePosition(obs.ret.rows[j])

(***************************************************************************)
(* CountExecutor: a running count of the rows delivered.                   *)
(***************************************************************************)
\* rows delivered to one executor instance over its life
CountMaxRows == 5

\* CountExecutor.__init__
CE_init == [state |-> 0]

\* CE_execute counting the batches of the call instead of their rows
CE_execute_batches(self, batches) ==
  IF \E i \in 1..Len(batches) : batches[i] = None
  THEN [self |-> self, ret |-> [kind |-> "raise", exc |-> "TypeError"]]
  ELSE [self |-> [self EXCEPT !.state = @ + Len(batches)], ret |-> [kind |-> "none"]]

\* execute: [self, ret]; len(None) raises before the counter is assigned
CE_execute(self, batches) ==
  IF \E i \in 1..Len(batches) : batches[i] = None
  THEN [self |-> self, ret |-> [kind |-> "raise", exc |-> "TypeError"]]
  ELSE [self |-> [self EXCEPT !.state = @ + Len(Concat([i \in 1..Len(batches) |->
                                                          batches[i][1]]))],
        ret |-> [kind |-> "none"]]

\* done: polars.DataFrame([self.state]), a table of one row and one column
CE_done(self) ==
  [self |-> self, ret |-> [kind |-> "batch", rows |-> <<[column_0 |-> self.state]>>]]

\* obs.delivered holds the rows of the calls of execute that returned
CountInit ==
  /\ counter = CE_init
  /\ Idle({"count"})
  /\ obs = [delivered |-> <<>>, finalized |-> FALSE, ret |-> [kind |-> "none"]]

\* a call of execute, before done
CountExecute ==
  /\ ~obs.finalized
  /\ \E raw \in BatchLists(SortValues, CountMaxRows - Len(obs.delivered)) :
       LET batches == TagBatches(raw, Len(obs.delivered))
           o == CE_execute(counter, batches)
       IN  /\ counter' = o.self
           /\ obs' = IF o.ret.kind = "raise" THEN [obs EXCEPT !.ret = o.ret]
                     ELSE [obs EXCEPT !.delivered = @ \o RowsOf(batches), !.ret = o.ret]
  /\ Untouched({"count"})

\* the one call of done
CountDone ==
  /\ ~obs.finalized
  /\ counter' = CE_done(counter).self
  /\ obs' = [obs EXCEPT !.finalized = TRUE, !.ret = CE_done(counter).ret]
  /\ Untouched({"count"})

NextCount == CountExecute \/ CountDone

SpecCount == CountInit /\ [][NextCount]_vars

\* C31: the counter equals the number of rows of all batches delivered so
\* far, and done returns a result of exactly one row that holds this number.
C31_CounterIsRowTotal ==
  /\ counter.state = Len(obs.delivered)
  /\ obs.finalized =>
       /\ obs.ret.kind = "batch" /\ Len(obs.ret.rows) = 1
       /\ obs.ret.rows[1].column_0 = Len(obs.delivered)

\* done has returned the total of rows that came in two-row batch lists
C31_Witness ==
  /\ obs.finalized /\ Len(obs.delivered) >= 4
  /\ obs.ret.kind = "batch" /\ obs.ret.rows[1].column_0 = Len(obs.delivered)

(***************************************************************************)
(* The as-of executor fed two streams that are each in timestamp order     *)
(* across their batches.  obs.trades and obs.quotes hold the rows of the   *)
(* two streams delivered so far, obs.out the rows of every returned        *)
(* result, obs.before the executor as the last call found it.              *)
(***************************************************************************)
\* rows delivered over the life of the executor, both streams together
AsofOrdMaxRows == 4

\* the timestamp of the last row of a stream, 0 before its first
SA_last_time(rows) == IF rows = <<>> THEN 0 ELSE rows[Len(rows)].time

AsofOrdInit ==
  /\ asof = SA_init
  /\ Idle({"asof"})
  /\ obs = [trades |-> <<>>, quotes |-> <<>>, out |-> <<>>, finalized |-> FALSE,
            before |-> SA_init, ret |-> [kind |-> "none"]]

\* a call of execute with the next batches of one of the two streams
AsofOrdExecute ==
  /\ ~obs.finalized
  /\ \E stream_id \in {0, 1} :
       LET sofar == IF stream_id = 0 THEN obs.trades ELSE obs.quotes
       IN  \E raw \in {l \in BatchLists({v \in SAValues : v.time >= SA_last_time(sofar)},
                                        AsofOrdMaxRows - (Len(obs.trades) + Len(obs.quotes))) :
                         IsSortedBy(RowsOf(l), "time")} :
             LET batches == TagBatches(raw, Len(sofar))
                 o == SA_execute(asof, batches, stream_id)
                 taken == IF o.ret.kind = "raise" THEN <<>> ELSE RowsOf(batches)
             IN  /\ asof' = o.self
                 /\ obs' = [obs EXCEPT
                      !.trades = IF stream_id = 0 THEN @ \o taken ELSE @,
                      !.quotes = IF stream_id # 0 THEN @ \o taken ELSE @,
                      !.out = IF o.ret.kind = "batch" THEN @ \o o.ret.rows ELSE @,
                      !.before = asof,
                      !.ret = o.ret]
  /\ Untouched({"asof"})

\* the one call of done
AsofOrdDone ==
  /\ ~obs.finalized
  /\ asof' = SA_done(asof).self
  /\ obs' = [obs EXCEPT
               !.out = IF SA_done(asof).ret.kind = "batch" THEN @ \o SA_done(asof).ret.rows
                       ELSE @,
               !.finalized = TRUE, !.before = asof, !.ret = SA_done(asof).ret]
  /\ Untouched({"asof"})

NextAsofOrd == AsofOrdExecute \/ AsofOrdDone

SpecAsofOrd == AsofOrdInit /\ [][NextAsofOrd]_vars

SA_trade_ids(self) == {t.id : t \in SA_held(self.trade_state)}

\* the number of returned result rows that derive from trade row t
SA_emissions(t) == Cardinality({i \in 1..Len(obs.out) : obs.out[i].id = t.id})

SessAllInit ==
  /\ session \in {SW_init(w, t) : w \in SessionWindows, t \in Triggers}
  /\ Idle({"session"})
  /\ obs = [delivered |-> <<>>, results |-> <<>>, finalized |-> FALSE,
            ret |-> [kind |-> "none"]]

\* a call of execute that delivers rows, before done
SessAllExecute ==
  /\ ~obs.finalized
  /\ \E raw \in {l \in BatchLists(SessValues(LastTs(obs.delivered)),
                                  SessMaxRows - Len(obs.delivered)) :
                   RowsOf(l) # <<>> /\ IsSortedBy(RowsOf(l), "ts")} :
       LET batches == TagBatches(raw, Len(obs.delivered))
           o == SW_execute(session, batches)
       IN  /\ session' = o.self
           /\ obs' = [obs EXCEPT !.delivered = @ \o RowsOf(batches),
                                 !.results = Append(@, o.ret),
                                 !.ret = o.ret]
  /\ Untouched({"session"})

\* the one call of done, after the last batch
SessAllDone ==
  /\ ~obs.finalized
  /\ session' = SW_done(session).self
  /\ obs' = [obs EXCEPT !.results = Append(@, SW_done(session).ret),
                        !.finalized = TRUE, !.ret = SW_done(session).ret]
  /\ Untouched({"session"})

NextSessAll == SessAllExecute \/ SessAllDone

SpecSessAll == SessAllInit /\ [][NextSessAll]_vars

\* how often row id has contributed to an emitted aggregate, over all
\* results: as a member of a session aggregate under the on-completion
\* trigger, as the row of a running aggregate under the on-event trigger
SessEmissions(id) ==
  Cardinality({c \in (1..Len(obs.results)) \X (1..(2 * SessMaxRows)) \X (1..(2 * SessMaxRows)) :
     /\ obs.results[c[1]].kind = "batch"
     /\ c[2] <= Len(obs.results[c[1]].rows)
     /\ IF session.trigger = "OnCompletionTrigger"
        THEN /\ c[3] <= Len(obs.results[c[1]].rows[c[2]].rows)
             /\ obs.results[c[1]].rows[c[2]].rows[c[3]] = id
        ELSE c[3] = 1 /\ obs.results[c[1]].rows[c[2]].of = id})

\* the (key, session id) pairs of the session aggregates call c returned
SessEmittedPairs(c) ==
  IF obs.results[c].kind = "batch" /\ session.trigger = "OnCompletionTrigger"
       /\ ~(obs.finalized /\ c = Len(obs.results))
  THEN {<<a.by, a.window_id>> : a \in Range(obs.results[c].rows)}
  ELSE {}

\* C34: once done has been called every delivered row has contributed to
\* exactly one emitted aggregate, and no two calls of execute have emitted a
\* session under the same (key, session id) pair.
C34_EveryRowInOneSession ==
  /\ obs.finalized => \A r \in Range(obs.delivered) : SessEmissions(r.id) = 1
  /\ \A c, d \in 1..Len(obs.results) :
       c # d => SessEmittedPairs(c) \cap SessEmittedPairs(d) = {}

(***************************************************************************)
(* The rows of the output executor: delivered, on disk, buffered.          *)
(***************************************************************************)
\* the rows delivered so far, in arrival order
OE_delivered == [k \in 1..obs.n |-> [v |-> 0, id |-> k]]

\* the files on disk in file-index order, one after the other
OE_on_disk ==
  Concat([j \in 1..output.name |->
            LET p == OE_basename_template(output, 0, j - 1)
            IN  IF p \in DOMAIN disk THEN disk[p] ELSE <<>>])

\* C35: after any sequence of execute calls the files written so far, read
\* in file-index order, followed by the buffered rows are the delivered rows
\* in arrival order (so written plus buffered rows number the delivered
\* ones); after done the files alone hold every delivered row exactly once.
C35_NoRowLostOrDuplicated ==
  /\ ~obs.finalized => OE_on_disk \o Concat(output.my_batches) = OE_delivered
  /\ obs.finalized => OE_on_disk = OE_delivered
  /\ DOMAIN disk = {OE_basename_template(output, 0, j - 1) : j \in 1..output.name}

\* done has written a last short file after execute calls that wrote files
\* and left rows in the buffer
C35_Witness ==
  /\ obs.finalized
  /\ obs.n >= 5
  /\ output.row_group_size = 2
  /\ OE_written("execute") # <<>>
  /\ OE_written("done") # <<>>

(***************************************************************************)
(* OutputExecutor.upload_write_batch step by step: the calling thread      *)
(* submits one write per slice and then waits for the futures in order;    *)
(* the workers of the pool take the queued writes and run them in any      *)
(* interleaving.  upload holds the frame of the call and the pool.         *)
(***************************************************************************)
\* rows of one write_batch
UpMaxRows == 3
\* largest row_group_size tried
UpMaxGroup == 2
\* largest multiprocessing.cpu_count() tried
UpMaxWorkers == 2
\* calls of upload_write_batch on one executor
UpMaxCalls == 2

\* Future.result() without the wait: whatever the state of the write
OE_future_result_nowait(fut) == TRUE

\* line 404: fut.result() returns once the write has run to its end
OE_future_result(fut) == fut.st = "done"

\* the writes a worker has taken and not finished
OE_running(futures) == {j \in 1..Len(futures) : futures[j].st \in {"running", "open"}}

\* the writes not yet finished
OE_in_flight(futures) == {j \in 1..Len(futures) : futures[j].st # "done"}

UploadInit ==
  /\ output \in {OE_init(f, n) : f \in {"csv", "parquet"}, n \in 1..UpMaxGroup}
  /\ disk = <<>>
  /\ upload \in {[pc |-> "idle", max_workers |-> w, write_batch |-> <<>>, i |-> 0,
                  futures |-> <<>>, k |-> 1] : w \in 1..UpMaxWorkers}
  /\ Idle({"output", "disk", "upload"})
  /\ obs = [calls |-> 0, caller |-> "none", finalized |-> FALSE, submitted |-> <<>>,
            ret |-> [kind |-> "none"]]

\* execute (line 432, after the assertion of line 429) or done (line 441)
\* calls upload_write_batch; lines 375-393 run
UploadCall ==
  /\ upload.pc = "idle"
  /\ ~obs.finalized
  /\ obs.calls < UpMaxCalls
  /\ \E caller \in {"execute", "done"}, n \in 0..UpMaxRows :
       /\ caller = "execute" => n > 0 /\ n % output.row_group_size = 0
       /\ upload' = [upload EXCEPT !.pc = "loop", !.i = 0, !.futures = <<>>, !.k = 1,
                        !.write_batch = [r \in 1..n |-> [v |-> 0, id |-> r]]]
       /\ obs' = [obs EXCEPT !.calls = @ + 1, !.caller = caller,
                             !.ret = [kind |-> "none"]]
  /\ UNCHANGED <<output, disk>>
  /\ Untouched({"output", "disk", "upload"})

\* lines 395-402: one round of the loop submits the write of one slice
UploadSubmit ==
  /\ upload.pc = "loop"
  /\ upload.i < Len(upload.write_batch)
  /\ LET current_batch == Slice(upload.write_batch, upload.i,
                                upload.i + output.row_group_size)
         basename_template == OE_basename_template(output, 0, output.name)
     IN  /\ output' = [output EXCEPT !.name = @ + 1]
         /\ upload' = [upload EXCEPT
                         !.i = @ + output.row_group_size,
                         !.futures = Append(@, [where |-> basename_template,
                                                table |-> current_batch,
                                                st |-> "queued"])]
         /\ obs' = [obs EXCEPT !.submitted = Append(@, basename_template)]
  /\ UNCHANGED disk
  /\ Untouched({"output", "disk", "upload"})

\* the loop of line 395 ends
UploadLoopEnd ==
  /\ upload.pc = "loop"
  /\ upload.i >= Len(upload.write_batch)
  /\ upload' = [upload EXCEPT !.pc = "wait"]
  /\ UNCHANGED <<output, disk, obs>>
  /\ Untouched({"output", "disk", "upload"})

\* a free worker of the pool takes the oldest queued write
WorkerTake ==
  /\ upload.pc \in {"loop", "wait"}
  /\ Cardinality(OE_running(upload.futures)) < upload.max_workers
  /\ \E j \in 1..Len(upload.futures) :
       /\ upload.futures[j].st = "queued"
       /\ \A h \in 1..(j - 1) : upload.futures[h].st # "queued"
       /\ upload' = [upload EXCEPT !.futures[j].st = "running"]
  /\ UNCHANGED <<output, disk, obs>>
  /\ Untouched({"output", "disk", "upload"})

\* lines 379-385: the worker opens the file for writing, which creates it
\* empty
WorkerOpen ==
  /\ \E j \in 1..Len(upload.futures) :
       /\ upload.futures[j].st = "running"
       /\ disk' = (upload.futures[j].where :> <<>>) @@ disk
       /\ upload' = [upload EXCEPT !.futures[j].st = "open"]
  /\ UNCHANGED <<output, obs>>
  /\ Untouched({"output", "disk", "upload"})

\* the worker writes the table, closes the file and returns True
WorkerWrite ==
  /\ \E j \in 1..Len(upload.futures) :
       /\ upload.futures[j].st = "open"
       /\ disk' = (upload.futures[j].where :> upload.futures[j].table) @@ disk
       /\ upload' = [upload EXCEPT !.futures[j].st = "done"]
  /\ UNCHANGED <<output, obs>>
  /\ Untouched({"output", "disk", "upload"})

\* line 404: the caller collects the result of the next future
UploadResult ==
  /\ upload.pc = "wait"
  /\ upload.k <= Len(upload.futures)
  /\ OE_future_result(upload.futures[upload.k])
  /\ upload' = [upload EXCEPT !.k = @ + 1]
  /\ UNCHANGED <<output, disk, obs>>
  /\ Untouched({"output", "disk", "upload"})

\* every result is True: upload_write_batch returns, and execute or done
\* returns its manifest (lines 434-437, 443-444)
UploadReturn ==
  /\ upload.pc = "wait"
  /\ upload.k > Len(upload.futures)
  /\ upload' = [upload EXCEPT !.pc = "idle"]
  /\ obs' = [obs EXCEPT !.finalized = (obs.caller = "done"),
                        !.ret = [kind |-> "batch"]]
  /\ UNCHANGED <<output, disk>>
  /\ Untouched({"output", "disk", "upload"})

NextUpload ==
  \/ UploadCall \/ UploadSubmit \/ UploadLoopEnd \/ WorkerTake \/ WorkerOpen
  \/ WorkerWrite \/ UploadResult \/ UploadReturn

SpecUpload == UploadInit /\ [][NextUpload]_vars

\* C36: whatever the interleaving of the submitted writes, no two writes
\* (of one call or of two calls on the executor) target the same file name,
\* and when upload_write_batch has returned, and so when execute or done
\* returns, every write it submitted has completed: none is in flight and
\* each file holds its slice.
C36_WritesDisjointAndAwaited ==
  /\ \A a, b \in 1..Len(obs.submitted) : a # b => obs.submitted[a] # obs.submitted[b]
  /\ upload.pc = "idle" =>
       /\ OE_in_flight(upload.futures) = {}
       /\ \A j \in 1..Len(upload.futures) :
            /\ upload.futures[j].where \in DOMAIN disk
            /\ disk[upload.futures[j].where] = upload.futures[j].table

\* a call has returned after two of its writes were running at the same
\* time, and an earlier call had written files too
C36_Witness ==
  /\ upload.pc = "idle"
  /\ obs.calls = 2
  /\ Len(upload.futures) >= 2
  /\ Len(obs.submitted) > Len(upload.futures)

\* two writes of a call are running at the same moment
C36_WitnessConcurrent ==
  Cardinality(OE_running(upload.futures)) >= 2

(***************************************************************************)
(* The sparse index of the sort executor against its spill files.          *)
(***************************************************************************)
\* the entries of the index, none before the first non-empty call
SFS_index == IF sorter.in_mem_state = None THEN <<>> ELSE sorter.in_mem_state[1]

\* the key values the index holds for file number f, in index order
SFS_index_keys(f) ==
  LET tagged == SelectSeq(SFS_index, LAMBDA e : e.file_no = f)
  IN  [i \in 1..Len(tagged) |-> tagged[i].values]

\* the keys of the rows of spill file number f, in file order
SFS_file_keys(f) ==
  LET rows == Concat(disk[SFS_filename(sorter, 0, f)])
  IN  [i \in 1..Len(rows) |-> rows[i][sorter.key]]

\* index and files agree
SFS_index_matches_files ==
  /\ Len(SFS_index) = Len(obs.delivered)
  /\ DOMAIN disk = {SFS_filename(sorter, 0, f) : f \in 0..(sorter.fileno - 1)}
  /\ \A e \in Range(SFS_index) : e.file_no \in 0..(sorter.fileno - 1)
  /\ \A f \in 0..(sorter.fileno - 1) : SFS_index_keys(f) = SFS_file_keys(f)

\* what one call of execute does to the files
SFS_execute_step ==
  (done_gen = Absent /\ done_gen' = Absent) =>
    IF obs'.delivered = obs.delivered
    THEN sorter' = sorter /\ disk' = disk
    ELSE /\ sorter'.fileno = sorter.fileno + 1
         /\ SFS_filename(sorter, 0, sorter.fileno) \notin DOMAIN disk
         /\ DOMAIN disk' = DOMAIN disk \cup {SFS_filename(sorter, 0, sorter.fileno)}
         /\ \A p \in DOMAIN disk : disk'[p] = disk[p]

\* C37: after any sequence of execute calls the index has one entry per
\* ingested row and the entries tagged f are the keys of the rows of spill
\* file f; a call with data writes exactly one new file, under a number not
\* used before, and leaves the older files alone; a call without data
\* changes neither files, index nor counter; and the generator of done,
\* run on this index and these files, never raises the exception of an
\* exhausted spill file.
C37_IndexMatchesSpillFiles ==
  [][/\ SFS_index_matches_files'
     /\ SFS_execute_step
     /\ ~(obs'.ret.kind = "raise" /\ obs'.ret.exc = "Exception")]_vars

\* three calls with data have written three files and the generator has
\* read them to the end
C37_Witness ==
  /\ sorter.fileno >= 3
  /\ Len(obs.delivered) = MaxRows
  /\ done_gen # Absent
  /\ IF done_gen = Absent THEN FALSE ELSE done_gen.pc = "finished"

(***************************************************************************)
(* The distinct executor with a caller that keeps the first batch it was   *)
(* given.  A DataFrame is an object: the first call stores its batch in    *)
(* self.state and returns the same object (lines 568-570), and every later *)
(* call extends the object self.state refers to in place (line 573).       *)
(* obs.first holds the rows the first returned batch had when it was       *)
(* returned and the rows the caller finds in it now.                       *)
(***************************************************************************)
DistHeldInit ==
  /\ distinct \in {DE_init(keys) : keys \in {{"k"}, {"k", "v"}}}
  /\ Idle({"distinct"})
  /\ obs = [delivered |-> <<>>, first |-> None, finalized |-> FALSE,
            ret |-> [kind |-> "none"]]

\* a call of execute, before done
DistHeldExecute ==
  /\ ~obs.finalized
  /\ \E batches \in BatchLists(DistValues, DistMaxRows - Len(obs.delivered)) :
     \E o \in DE_execute(distinct, batches) :
       /\ distinct' = o.self
       /\ obs' = [obs EXCEPT
                    !.delivered = @ \o RowsOf(batches),
                    !.first =
                      IF o.ret.kind # "batch" THEN @
                      ELSE IF distinct.state = None
                      THEN \* the object returned is the one self.state names
                           Some([returned |-> o.ret.rows, now |-> o.self.state[1]])
                      ELSE \* vstack(in_place = True) on that object
                           Some([@[1] EXCEPT !.now = o.self.state[1]]),
                    !.ret = o.ret]
  /\ Untouched({"distinct"})

\* the one call of done, after the last batch
DistHeldDone ==
  /\ ~obs.finalized
  /\ distinct' = DE_done(distinct).self
  /\ obs' = [obs EXCEPT !.finalized = TRUE, !.ret = DE_done(distinct).ret]
  /\ Untouched({"distinct"})

NextDistHeld == DistHeldExecute \/ DistHeldDone

SpecDistHeld == DistHeldInit /\ [][NextDistHeld]_vars

\* C38: the batch returned by the first execute call keeps the rows it had
\* when it was returned, whatever later execute calls fold into the state.
C38_ReturnedBatchUnchanged ==
  obs.first # None => obs.first[1].now = obs.first[1].returned

(***************************************************************************)
(* SortPhase2Dataset (src/pyquokka/dataset.py): the merge of the sorted    *)
(* spill files of a channel.  A file is a sequence of record batches;      *)
(* dataset is the dataset object, reader the frame of the generator that   *)
(* get_next_batch returns.                                                 *)
(***************************************************************************)
\* spill files of the channel
P2MaxFiles == 2
\* rows of one spill file
P2MaxFileRows == 3
\* largest record_batch_rows tried
P2MaxBatch == 2

\* SortPhase2Dataset.__init__
P2_init(channel_files, key, record_batch_rows) ==
  [channel_files |-> channel_files, record_batch_rows |-> record_batch_rows, key |-> key]

\* lines 65-70: a cache shorter than record_batch_rows takes one more record
\* batch of its file, if the file has one
P2_refill(cached, next_batch_to_get, source, record_batch_rows) ==
  IF Len(cached) < record_batch_rows /\ next_batch_to_get < Len(source)
  THEN [cached |-> cached \o source[next_batch_to_get + 1],
        next_batch_to_get |-> next_batch_to_get + 1]
  ELSE [cached |-> cached, next_batch_to_get |-> next_batch_to_get]

\* lines 39-47, run at the first resumption: the files opened and record
\* batch 0 of each cached
P2_setup(self, fs, mapper_id) ==
  LET sources == [j \in 1..Len(self.channel_files[mapper_id]) |->
                    fs[self.channel_files[mapper_id][j]]]
  IN  [pc |-> "running", sources |-> sources,
       number_of_batches_in_sources |-> [j \in DOMAIN sources |-> Len(sources[j])],
       next_batch_to_gets |-> [j \in DOMAIN sources |-> 1],
       cached_batches_in_mem |-> [j \in DOMAIN sources |-> sources[j][1]]]

\* lines 49-75: the loop test and one pass up to its yield; the outcomes
\* [frame, ret]
P2_pass(self, frame) ==
  LET R == self.record_batch_rows
      cached == frame.cached_batches_in_mem
      n == Len(cached)
      disk_portions == [j \in 1..n |-> Slice(cached[j], 0, R)]
      tagged == Concat([j \in 1..n |->
                  [i \in 1..Len(disk_portions[j]) |->
                     [key |-> disk_portions[j][i][self.key], asdasd |-> j]]])
  IN  IF \A j \in 1..n : Len(cached[j]) = 0
      THEN {[frame |-> [frame EXCEPT !.pc = "finished"], ret |-> [kind |-> "stop"]]}
      ELSE UNION {
             LET result_idx == Slice(idx, 0, R)
                 disk_contribs == [j \in 1..n |->
                    Cardinality({i \in 1..Len(result_idx) : result_idx[i].asdasd = j})]
                 taken == Concat([j \in 1..n |-> Slice(disk_portions[j], 0, disk_contribs[j])])
                 filled == [j \in 1..n |->
                    P2_refill(Slice(cached[j], disk_contribs[j], Len(cached[j])),
                              frame.next_batch_to_gets[j], frame.sources[j], R)]
             IN  {[frame |-> [frame EXCEPT
                     !.cached_batches_in_mem = [j \in 1..n |-> filled[j].cached],
                     !.next_batch_to_gets = [j \in 1..n |-> filled[j].next_batch_to_get]],
                   ret |-> [kind |-> "yield", batch |-> result]]
                  : result \in SortedArrangements(taken, self.key)}
             : idx \in SortedArrangements(tagged, "key")}

\* one resumption (next) of the generator
P2_next(self, frame, fs) ==
  IF frame.pc = "created"
  THEN IF frame.pos # None
       THEN {[frame |-> [frame EXCEPT !.pc = "raised"],
              ret |-> [kind |-> "raise", exc |-> "Exception"]]}
       ELSE P2_pass(self, P2_setup(self, fs, frame.mapper_id))
  ELSE P2_pass(self, frame)

\* the non-decreasing key sequences of a file
P2KeySeqs ==
  {s \in SeqsUpTo(1..MaxKey, P2MaxFileRows) \ {<<>>} :
     \A i \in 1..(Len(s) - 1) : s[i] <= s[i + 1]}

RECURSIVE P2Splits(_)
\* the ways of cutting a table into consecutive non-empty record batches
P2Splits(s) ==
  {<<s>>} \cup UNION {{<<SubSeq(s, 1, c)>> \o rest : rest \in P2Splits(SubSeq(s, c + 1, Len(s)))}
                      : c \in 1..(Len(s) - 1)}

\* the file number j of the channel with the keys ks: its rows carry ids of
\* their own
P2File(j, ks) ==
  [i \in 1..Len(ks) |-> [key |-> ks[i], id |-> (j - 1) * P2MaxFileRows + i]]

\* the name of spill file j
P2Path(j) == <<"phase2", j>>

\* one channel (0) with one or more spill files, each sorted by key and cut
\* into record batches in some way
Phase2Init ==
  /\ \E n \in 1..P2MaxFiles :
     \E ks \in [1..n -> P2KeySeqs] :
     \E cut \in [1..n -> UNION {P2Splits(P2File(j, k)) : j \in 1..P2MaxFiles, k \in P2KeySeqs}] :
       /\ \A j \in 1..n : cut[j] \in P2Splits(P2File(j, ks[j]))
       /\ disk = [p \in {P2Path(j) : j \in 1..n} |-> cut[p[2]]]
       /\ \E r \in 1..P2MaxBatch :
            dataset = P2_init(<<[j \in 1..n |-> P2Path(j)]>>, "key", r)
  /\ reader = Absent
  /\ Idle({"dataset", "disk"})
  /\ obs = [yielded |-> <<>>, ret |-> [kind |-> "none"]]

\* get_next_batch(mapper_id, pos) is called: the generator is created, no
\* line of its body has run
Phase2Call ==
  /\ reader = Absent
  /\ \E pos \in {None, Some(0)} :
       reader' = [pc |-> "created", mapper_id |-> 1, pos |-> pos]
  /\ UNCHANGED <<dataset, disk, obs>>
  /\ Untouched({"dataset", "disk"})

\* the caller takes the next batch from the generator
Phase2Next ==
  /\ IF reader = Absent THEN FALSE ELSE reader.pc \in {"created", "running"}
  /\ \E o \in P2_next(dataset, reader, disk) :
       /\ reader' = o.frame
       /\ obs' = [obs EXCEPT
                    !.yielded = IF o.ret.kind = "yield" THEN Append(@, o.ret.batch) ELSE @,
                    !.ret = o.ret]
  /\ UNCHANGED <<dataset, disk>>
  /\ Untouched({"dataset", "disk"})

NextPhase2 == Phase2Call \/ Phase2Next

SpecPhase2 == Phase2Init /\ [][NextPhase2]_vars

\* every row of every file of the channel
P2AllRows == UNION {Range(Concat(disk[p])) : p \in DOMAIN disk}

\* C39: over spill files each sorted by key, cut into record batches of any
\* size, every yielded batch has at least one (so the generator ends) and at
\* most record_batch_rows rows, the batches yielded so far are non-decreasing
\* in key read one after the other, no row is yielded twice, and when the
\* generator has ended every row of every file has been yielded.
C39_MergeIsSortedAndComplete ==
  LET out == Concat(obs.yielded)
  IN  /\ \A b \in Range(obs.yielded) : Len(b) \in 1..dataset.record_batch_rows
      /\ IsSortedBy(out, "key")
      /\ \A a, b \in 1..Len(out) : a # b => out[a] # out[b]
      /\ Range(out) \subseteq P2AllRows
      /\ (reader # Absent /\ obs.ret.kind = "stop") => Range(out) = P2AllRows

(***************************************************************************)
(* InputDiskCSVDataset (src/pyquokka/dataset.py) over a single CSV file:   *)
(* get_own_state cuts the file into one byte range per channel, and the    *)
(* generator of get_next_batch reads the range of a channel stride by      *)
(* stride.  A file is its sequence of bytes; a row is given by the byte    *)
(* range of its text.                                                      *)
(***************************************************************************)
\* bytes of the file
CsvMaxSize == 6
\* largest number of channels tried
CsvMaxChannels == 3
\* largest window tried (4096 by default, dataset.py:315)
CsvMaxWindow == 4
\* largest stride tried (16 MiB by default)
CsvMaxStride == 4

\* bytes.find(b"\n"): the 0-based position of the first newline, or -1
CSV_find(resp) ==
  IF \E i \in 1..Len(resp) : resp[i] = "\n"
  THEN (CHOOSE i \in 1..Len(resp) :
          resp[i] = "\n" /\ \A j \in 1..(i - 1) : resp[j] # "\n") - 1
  ELSE -1

\* bytes.rfind(b"\n"): the 0-based position of the last newline, or -1
CSV_rfind(resp) ==
  IF \E i \in 1..Len(resp) : resp[i] = "\n"
  THEN (CHOOSE i \in 1..Len(resp) :
          resp[i] = "\n" /\ \A j \in (i + 1)..Len(resp) : resp[j] # "\n") - 1
  ELSE -1

\* csv.read_csv on the bytes from..to-1 of the file: one row per non-empty
\* run of bytes between newlines, given as <<first byte, byte after the last>>
CSV_rows(content, from, to) ==
  LET text(p) == p \in from..(to - 1) /\ content[p + 1] # "\n"
      starts == {a \in from..(to - 1) : text(a) /\ ~text(a - 1)}
      order == SetToSeq(starts)
  IN  [i \in 1..Len(order) |->
         <<order[i], CHOOSE b \in (order[i] + 1)..to :
                        /\ \A p \in order[i]..(b - 1) : text(p)
                        /\ ~text(b)>>]

\* InputDiskCSVDataset.__init__ (column names are supplied, so the assertion
\* of line 325 holds)
CSV_init(filepath, stride, header, window) ==
  [filepath |-> filepath, num_channels |-> None, names |-> <<"c">>, sep |-> ",",
   stride |-> stride, header |-> header, window |-> window, length |-> 0,
   channel_infos |-> None]

RECURSIVE CSV_take(_, _, _, _, _, _, _)
\* lines 379-386: whole files are taken while they fit into the share of
\* the channel
CSV_take(files, sizes, my_file, curr_size, end_byte, real_off, size_per_channel) ==
  IF curr_size + sizes[1] <= size_per_channel
  THEN IF Len(sizes) = 1
       THEN [done |-> TRUE, files |-> Tail(files), sizes |-> Tail(sizes),
             my_file |-> Append(my_file, Head(files)), curr_size |-> curr_size,
             end_byte |-> Some(sizes[1]), real_off |-> real_off]
       ELSE CSV_take(Tail(files), Tail(sizes), Append(my_file, Head(files)),
                     curr_size + sizes[1], Some(sizes[1]), 0, size_per_channel)
  ELSE [done |-> FALSE, files |-> files, sizes |-> sizes, my_file |-> my_file,
        curr_size |-> curr_size, end_byte |-> end_byte, real_off |-> real_off]

RECURSIVE CSV_channels(_, _, _, _, _)
\* lines 375-421: the loop over the channels from channel on
CSV_channels(self, fs, num_channels, channel, st) ==
  IF channel >= num_channels
  THEN [kind |-> "none", channel_infos |-> st.channel_infos]
  ELSE
    LET t == CSV_take(st.files, st.sizes, <<>>, 0, st.end_byte, st.real_off,
                      st.size_per_channel)
        with(info) == (channel :> info) @@ st.channel_infos
    IN  IF t.done
        THEN [kind |-> "none",
              channel_infos |-> with(<<st.start_byte, t.my_file, t.real_off + t.end_byte[1]>>)]
        ELSE IF t.curr_size = st.size_per_channel
        THEN IF t.end_byte = None
             THEN [kind |-> "raise", exc |-> "UnboundLocalError"]
             ELSE CSV_channels(self, fs, num_channels, channel + 1,
                    [st EXCEPT !.files = t.files, !.sizes = t.sizes,
                               !.end_byte = t.end_byte, !.real_off = t.real_off,
                               !.channel_infos =
                                  with(<<st.start_byte, t.my_file, t.real_off + t.end_byte[1]>>)])
        ELSE
          LET my_file == Append(t.my_file, t.files[1])
              candidate == st.size_per_channel - t.curr_size
              start == IF candidate - self.window > 0 THEN candidate - self.window ELSE 0
              end == Min(candidate + self.window, t.sizes[1])
              resp == Slice(fs[t.files[1]], t.real_off + start, t.real_off + end)
              last_newline == CSV_rfind(resp)
              bytes_to_take == start + last_newline + 1
              end_byte == t.real_off + bytes_to_take
          IN  IF last_newline = -1
              THEN [kind |-> "raise", exc |-> "Exception"]
              ELSE CSV_channels(self, fs, num_channels, channel + 1,
                     [st EXCEPT !.files = t.files,
                                !.sizes = [t.sizes EXCEPT ![1] = @ - bytes_to_take],
                                !.end_byte = Some(end_byte),
                                !.real_off = end_byte,
                                !.start_byte = end_byte,
                                !.channel_infos = with(<<st.start_byte, my_file, end_byte>>)])

\* get_own_state for a filepath that is a single file: the outcome
\* [self, ret]
CSV_get_own_state(self, fs, num_channels) ==
  LET numbered == [self EXCEPT !.num_channels = Some(num_channels)]
      sizes == <<Len(fs[self.filepath])>>
      total_size == sizes[1]
      o == CSV_channels(self, fs, num_channels, 0,
             [files |-> <<self.filepath>>, sizes |-> sizes, start_byte |-> 0,
              real_off |-> 0, end_byte |-> None,
              size_per_channel |-> total_size \div num_channels,
              channel_infos |-> <<>>])
  IN  IF self.header /\ CSV_find(Slice(fs[self.filepath], 0, self.window)) = -1
      THEN [self |-> numbered, ret |-> [kind |-> "raise", exc |-> "Exception"]]
      ELSE IF o.kind = "raise"
      THEN [self |-> numbered, ret |-> o]
      ELSE [self |-> [numbered EXCEPT !.length = total_size,
                                      !.channel_infos = Some(o.channel_infos)],
            ret |-> [kind |-> "none"]]

RECURSIVE CSV_read(_, _, _, _, _)
\* lines 440-479: the loops of get_next_batch from (curr_pos, pos) on, up to
\* the next yield; the outcome [frame, ret]
CSV_read(self, fs, frame, curr_pos, pos) ==
  LET info == self.channel_infos[1][frame.mapper_id]
      files == info[2]
  IN  IF curr_pos >= Len(files)
      THEN [frame |-> [frame EXCEPT !.pc = "finished"], ret |-> [kind |-> "stop"]]
      ELSE
        LET file == files[curr_pos + 1]
            end == IF curr_pos # Len(files) - 1 THEN Len(fs[file]) ELSE info[3]
            bytes_to_read == Min(pos + self.stride, end) - pos
            resp == Slice(fs[file], pos, pos + bytes_to_read)
            last_newline == CSV_rfind(resp)
            first_newline == CSV_find(Slice(resp, 0, last_newline))
            from == IF self.header /\ pos = 0 THEN pos + first_newline + 1 ELSE pos
        IN  IF pos >= end
            THEN CSV_read(self, fs, frame, curr_pos + 1, 0)
            ELSE IF last_newline = -1 \/ (self.header /\ pos = 0 /\ first_newline = -1)
            THEN [frame |-> [frame EXCEPT !.pc = "raised"],
                  ret |-> [kind |-> "raise", exc |-> "Exception"]]
            ELSE [frame |-> [frame EXCEPT !.pc = "running", !.curr_pos = curr_pos,
                                          !.pos = pos + last_newline + 1],
                  ret |-> [kind |-> "yield",
                           state |-> <<curr_pos, pos + last_newline + 1>>,
                           rows |-> CSV_rows(fs[file], from, pos + last_newline)]]

\* one resumption (next) of the generator of get_next_batch(mapper_id)
CSV_get_next_batch(self, fs, frame) ==
  IF frame.pc = "created"
  THEN IF self.num_channels = None
       THEN [frame |-> [frame EXCEPT !.pc = "raised"],
             ret |-> [kind |-> "raise", exc |-> "AssertionError"]]
       ELSE IF frame.mapper_id \notin DOMAIN self.channel_infos[1]
       THEN [frame |-> [frame EXCEPT !.pc = "raised"],
             ret |-> [kind |-> "raise", exc |-> "KeyError"]]
       ELSE CSV_read(self, fs, frame, 0, self.channel_infos[1][frame.mapper_id][1])
  ELSE CSV_read(self, fs, frame, frame.curr_pos, frame.pos)

\* the files tried: lines of one or two characters, each ended by a newline
CsvLines == {<<"a", "\n">>, <<"a", "a", "\n">>}

CsvFiles ==
  {Concat(ls) : ls \in {l \in SeqsUpTo(CsvLines, CsvMaxSize \div 2) :
                          l # <<>> /\ Len(Concat(l)) <= CsvMaxSize}}

\* one CSV file on disk and the dataset object constructed for it
CsvInit ==
  /\ disk \in {("data.csv" :> c) : c \in CsvFiles}
  /\ dataset \in {CSV_init("data.csv", s, h, w) :
                    s \in 2..CsvMaxStride, h \in BOOLEAN, w \in 1..CsvMaxWindow}
  /\ reader = Absent
  /\ Idle({"dataset", "disk"})
  /\ obs = [assigned |-> "no", read |-> {}, ended |-> {}, yielded |-> <<>>,
            ret |-> [kind |-> "none"]]

\* the one call of get_own_state, with the number of channels
CsvGetOwnState ==
  /\ obs.assigned = "no"
  /\ \E n \in 1..CsvMaxChannels :
       LET o == CSV_get_own_state(dataset, disk, n)
       IN  /\ dataset' = o.self
           /\ obs' = [obs EXCEPT !.assigned = IF o.ret.kind = "raise" THEN "raise" ELSE "ok",
                                 !.ret = o.ret]
  /\ UNCHANGED <<disk, reader>>
  /\ Untouched({"dataset", "disk"})

\* get_next_batch(mapper_id) is called for a channel not read yet: the
\* generator is created, no line of its body has run
CsvCall ==
  /\ obs.assigned = "ok"
  /\ IF reader = Absent THEN TRUE ELSE reader.pc \in {"finished", "raised"}
  /\ \E mapper_id \in (0..(dataset.num_channels[1] - 1)) \ obs.read :
       /\ reader' = [pc |-> "created", mapper_id |-> mapper_id, curr_pos |-> 0, pos |-> 0]
       /\ obs' = [obs EXCEPT !.read = @ \cup {mapper_id}, !.ret = [kind |-> "none"]]
  /\ UNCHANGED <<dataset, disk>>
  /\ Untouched({"dataset", "disk"})

\* the caller takes the next batch from the generator
CsvNext ==
  /\ IF reader = Absent THEN FALSE ELSE reader.pc \in {"created", "running"}
  /\ LET o == CSV_get_next_batch(dataset, disk, reader)
     IN  /\ reader' = o.frame
         /\ obs' = [obs EXCEPT
                      !.yielded = IF o.ret.kind = "yield" THEN @ \o o.ret.rows ELSE @,
                      !.ended = IF o.ret.kind = "stop" THEN @ \cup {reader.mapper_id} ELSE @,
                      !.ret = o.ret]
  /\ UNCHANGED <<dataset, disk>>
  /\ Untouched({"dataset", "disk"})

NextCsv == CsvGetOwnState \/ CsvCall \/ CsvNext

SpecCsv == CsvInit /\ [][NextCsv]_vars

\* the bytes assigned to a channel
CsvRange(channel) ==
  LET info == dataset.channel_infos[1][channel]
  IN  info[1]..(info[3] - 1)

\* the generator of every channel has run to its end
CsvAllRead ==
  /\ obs.assigned = "ok"
  /\ obs.ended = 0..(dataset.num_channels[1] - 1)

\* the data lines of the file
CsvDataLines ==
  LET all == CSV_rows(disk["data.csv"], 0, Len(disk["data.csv"]))
  IN  IF dataset.header THEN Tail(all) ELSE all

\* C40: when get_own_state has split the one file over n channels, every
\* channel 0..n-1 has an assignment, each assigned range ends right after a
\* newline, the ranges are pairwise disjoint and together are the whole
\* file; and once get_next_batch has been read to the end on every channel,
\* every line of the file has been yielded exactly once.
C40_ChannelsPartitionTheFile ==
  obs.assigned = "ok" =>
    LET n == dataset.num_channels[1]
        infos == dataset.channel_infos[1]
        content == disk["data.csv"]
    IN  /\ DOMAIN infos = 0..(n - 1)
        /\ \A c \in DOMAIN infos :
             infos[c][3] \in 1..Len(content) /\ content[infos[c][3]] = "\n"
        /\ \A c, d \in DOMAIN infos : c # d => CsvRange(c) \cap CsvRange(d) = {}
        /\ UNION {CsvRange(c) : c \in DOMAIN infos} = 0..(Len(content) - 1)
        /\ CsvAllRead =>
             /\ Range(obs.yielded) = Range(CsvDataLines)
             /\ Len(obs.yielded) = Len(CsvDataLines)

====
